---- MODULE Spec2Model ----
(***************************************************************************)
(* Model of the TradingFlow flow linter (src/src/index.ts, class TFLLint   *)
(* and the two convenience functions lintFlow / lintNodeExecution).        *)
(*                                                                         *)
(* JavaScript values are represented as follows.                           *)
(*   - a JS string is a TLA+ string; the two reserved tokens Undefined and *)
(*     Null stand for the JS values undefined and null in a position that  *)
(*     otherwise holds a string (an id, a type, a handle, a version);      *)
(*   - a value that may or may not be an array is a record                 *)
(*     [kind, items] with kind in "undefined", "null", "emptystring",      *)
(*     "object", "array";                                                 *)
(*   - an optional object (node.data, node.position, the options, the      *)
(*     flow data itself) is a record with a kind field, "object" when it   *)
(*     is present;                                                         *)
(*   - a call of lintFlow ends either by returning a list of issues or by  *)
(*     throwing a TypeError: [threw |-> BOOLEAN, issues |-> Seq(issue)].   *)
(***************************************************************************)
EXTENDS Integers, Sequences, FiniteSets, TLC

VARIABLES
    options,   \* TFLLint.options of the linter instance
    edges,     \* TFLLint.edges, the edge list cached on the instance
    entry,     \* the entry point of the last call ("constructor" before any)
    optionsArg,\* the options argument handed to that entry point
    data,      \* the graph the caller holds, the argument of the last call, as
               \* the call leaves it
    result,    \* what the last call did: the returned issues, or a throw
    prevEdges, \* history: TFLLint.edges of the linter when the last call began
    registry   \* the module-level object NODE_DEFINITIONS, as the calls leave it

vars == <<options, edges, entry, optionsArg, data, result, prevEdges, registry>>

-----------------------------------------------------------------------------
(* JavaScript values *)

Undefined == "<undefined>"
Null == "<null>"

\* !x for a string-or-nullish value
Falsy(x) == x = Undefined \/ x = Null \/ x = ""
Truthy(x) == ~Falsy(x)

\* `${x}` in a template literal
Str(x) == IF x = Undefined THEN "undefined" ELSE IF x = Null THEN "null" ELSE x

\* x ?? "" as Array.prototype.join renders an element
JoinStr(x) == IF x = Undefined \/ x = Null THEN "" ELSE x

\* `${index}` for the indexes the model uses (JS indexes are 0-based)
Digit == <<"0", "1", "2", "3", "4", "5", "6", "7", "8", "9">>
RECURSIVE NumStr(_)
NumStr(n) == IF n < 10 THEN Digit[n + 1] ELSE NumStr(n \div 10) \o Digit[(n % 10) + 1]

\* values that may be arrays
UndefinedV == [kind |-> "undefined", items |-> <<>>]
NullV == [kind |-> "null", items |-> <<>>]
EmptyStringV == [kind |-> "emptystring", items |-> <<>>]   \* "", falsy but not nullish
ObjectV == [kind |-> "object", items |-> <<>>]   \* a truthy value that is no array
Arr(s) == [kind |-> "array", items |-> s]
TruthyV(v) == v.kind \in {"object", "array"}
IsArray(v) == v.kind = "array"

\* String.prototype.endsWith / startsWith / includes(one character)
EndsWith(s, suf) ==
    Len(s) >= Len(suf) /\ SubSeq(s, Len(s) - Len(suf) + 1, Len(s)) = suf
StartsWith(s, pre) == Len(s) >= Len(pre) /\ SubSeq(s, 1, Len(pre)) = pre
IncludesChar(s, c) == \E i \in 1..Len(s) : SubSeq(s, i, i) = c

\* Array.prototype.includes for a sequence
Includes(seq, x) == \E i \in 1..Len(seq) : seq[i] = x

-----------------------------------------------------------------------------
(* LintIssue, src/src/index.ts:34-42.  An optional field that the code     *)
(* leaves out is Undefined.                                                *)

Issue(sev, msg, elId, elType, code, fId, fType) ==
    [severity |-> sev, message |-> msg, elementId |-> elId,
     elementType |-> elType, code |-> code, fieldId |-> fId, fieldType |-> fType]

\* as NodeIssue, were every issue of a node reported as an error
NodeIssue_AlwaysError(sev, msg, elId, code) ==
    Issue("error", msg, elId, "node", code, Undefined, Undefined)

NodeIssue(sev, msg, elId, code) ==
    Issue(sev, msg, elId, "node", code, Undefined, Undefined)

EdgeIssue(msg, code) ==
    Issue("error", msg, Undefined, "edge", code, Undefined, Undefined)

FlowIssue(msg, code) ==
    Issue("error", msg, Undefined, Undefined, code, Undefined, Undefined)

\* the outcome of a function that returns issues or throws
Returned(iss) == [threw |-> FALSE, issues |-> iss]
Threw == [threw |-> TRUE, issues |-> <<>>]

-----------------------------------------------------------------------------
(* NODE_DEFINITIONS, src/src/index.ts:45-205 *)

Def(req, opt, out) == [requiredInputs |-> req, optionalInputs |-> opt, outputs |-> out]

NodeTypes ==
    {"price_node", "dataset_input_node", "x_listener_node", "rootdata_node",
     "ai_model_node", "code_node", "swap_node", "buy_node", "sell_node",
     "vault_node", "dataset_output_node", "telegram_sender_node"}

NODE_DEFINITIONS ==
    [t \in NodeTypes |->
        CASE t = "price_node" -> Def(<<"source", "data_type", "symbol">>, <<>>, <<"data">>)
          [] t = "dataset_input_node" -> Def(<<"doc_link">>, <<>>, <<"data">>)
          [] t = "x_listener_node" ->
                Def(<<"accounts">>, <<"keywords">>, <<"latest_tweets">>)
          [] t = "rootdata_node" ->
                Def(<<"operation">>,
                    <<"language", "query", "precise_x_search", "type", "project_id",
                      "contract_address", "org_id", "people_id", "include_team",
                      "include_investors", "include_investments", "page", "page_size",
                      "begin_time", "end_time", "min_amount", "max_amount", "days",
                      "rank_type", "heat", "influence", "followers", "recent_joinees",
                      "recent_resignations", "ecosystem_ids", "tag_ids">>,
                    <<"data">>)
          [] t = "ai_model_node" ->
                Def(<<"model", "prompt">>, <<"parameters">>, <<"ai_response">>)
          [] t = "code_node" ->
                Def(<<"python_code">>, <<"input_data">>, <<"output_data">>)
          [] t = "swap_node" ->
                Def(<<"from_token", "to_token", "amount_in_human_readable", "slippery",
                      "vault">>,
                    <<"amount_in_percentage", "amount_in_human_readble">>,
                    <<"trade_receipt">>)
          [] t = "buy_node" ->
                Def(<<"buy_token", "base_token", "amount_in_human_readable", "vault">>,
                    <<"order_type", "limited_price", "amount_in_percentage",
                      "amount_in_human_readble">>,
                    <<"trade_receipt">>)
          [] t = "sell_node" ->
                Def(<<"sell_token", "base_token", "amount_in_human_readable", "vault">>,
                    <<"order_type", "limited_price", "amount_in_percentage",
                      "amount_in_human_readble">>,
                    <<"trade_receipt">>)
          [] t = "vault_node" -> Def(<<"vault_address", "chain">>, <<>>, <<"vault">>)
          [] t = "dataset_output_node" -> Def(<<"doc_link", "data">>, <<>>, <<>>)
          [] t = "telegram_sender_node" ->
                Def(<<"account_to_send", "messages">>, <<>>, <<"result">>)]

\* NODE_DEFINITIONS[node.type] is truthy
KnownType(t) == t \in NodeTypes

-----------------------------------------------------------------------------
(* Version syntax, src/src/index.ts:866-894 *)

DigitChars == {"0", "1", "2", "3", "4", "5", "6", "7", "8", "9"}
LowerChars ==
    {"a", "b", "c", "d", "e", "f", "g", "h", "i", "j", "k", "l", "m", "n", "o", "p",
     "q", "r", "s", "t", "u", "v", "w", "x", "y", "z"}
UpperChars ==
    {"A", "B", "C", "D", "E", "F", "G", "H", "I", "J", "K", "L", "M", "N", "O", "P",
     "Q", "R", "S", "T", "U", "V", "W", "X", "Y", "Z"}
LetterChars == LowerChars \cup UpperChars
\* the class [a-zA-Z0-9.-]
TagChars == LetterChars \cup DigitChars \cup {".", "-"}

CharAt(s, i) == SubSeq(s, i, i)
From(s, i) == SubSeq(s, i, Len(s))

\* every character of the non-empty string s is in the class cls: ^[cls]+$
AllIn(s, cls) == Len(s) >= 1 /\ \A i \in 1..Len(s) : CharAt(s, i) \in cls

\* the position after the longest run of digits of s that starts at i
RECURSIVE DigitsEnd(_, _)
DigitsEnd(s, i) ==
    IF i <= Len(s) /\ CharAt(s, i) \in DigitChars THEN DigitsEnd(s, i + 1) ELSE i

\* \d+\.\d+\.\d+ matched at position i of s: the position after the match, 0 if none
CoreEnd(s, i) ==
    LET a == DigitsEnd(s, i)
        b == DigitsEnd(s, a + 1)
        c == DigitsEnd(s, b + 1)
    IN  IF a > i /\ a <= Len(s) /\ CharAt(s, a) = "."
           /\ b > a + 1 /\ b <= Len(s) /\ CharAt(s, b) = "."
           /\ c > b + 1
        THEN c ELSE 0

\* ^\d+\.\d+\.\d+$ on the whole of s
IsCore(s) == CoreEnd(s, 1) = Len(s) + 1

\* first position of the character c in s, 0 if none
RECURSIVE IndexOfChar(_, _, _)
IndexOfChar(s, c, i) ==
    IF i > Len(s) THEN 0
    ELSE IF CharAt(s, i) = c THEN i ELSE IndexOfChar(s, c, i + 1)

\* (-[a-zA-Z0-9.-]+)?(\+[a-zA-Z0-9.-]+)?$ on the rest of an exact version
ExactSuffix(r) ==
    LET plus == IndexOfChar(r, "+", 1)
        pre == IF plus = 0 THEN r ELSE SubSeq(r, 1, plus - 1)
        build == IF plus = 0 THEN "" ELSE From(r, plus)
    IN  /\ pre = "" \/ (CharAt(pre, 1) = "-" /\ AllIn(From(pre, 2), TagChars))
        /\ build = "" \/ AllIn(From(build, 2), TagChars)

\* patterns.exact
MatchExact(v) ==
    LET e == CoreEnd(v, 1) IN e # 0 /\ ExactSuffix(From(v, e))

\* patterns.latest
MatchLatest(v) ==
    /\ StartsWith(v, "latest")
    /\ LET r == From(v, 7)
       IN  r = "" \/ (CharAt(r, 1) = "-" /\ AllIn(From(r, 2), LetterChars))

\* patterns.caret
MatchCaret(v) == StartsWith(v, "^") /\ IsCore(From(v, 2))

\* patterns.tilde
MatchTilde(v) == StartsWith(v, "~") /\ IsCore(From(v, 2))

\* patterns.comparison
MatchComparison(v) ==
    \/ (StartsWith(v, ">=") \/ StartsWith(v, "<=")) /\ IsCore(From(v, 3))
    \/ (StartsWith(v, ">") \/ StartsWith(v, "<")) /\ IsCore(From(v, 2))

\* validateVersionSyntax(version).isValid, for a version that is a string
validateVersionSyntax(version) ==
    /\ Truthy(version)
    /\ \/ MatchExact(version)
       \/ MatchLatest(version)
       \/ MatchCaret(version)
       \/ MatchTilde(version)
       \/ MatchComparison(version)

\* node.version || node.data?.version
NodeVersion(node) ==
    IF Truthy(node.version) THEN node.version
    ELSE IF node.data.kind = "object" THEN node.data.version ELSE Undefined

lintNodeVersion(node) ==
    LET version == NodeVersion(node)
    IN  IF Falsy(version)
        THEN << NodeIssue("warning", "No version specified, using default: 'latest'",
                          node.id, "missing-node-version") >>
        ELSE IF ~validateVersionSyntax(version)
        THEN << NodeIssue("error",
                          "Invalid version specification: '" \o version
                             \o "'. Expected format: '1.2.3', 'latest', '^1.2.0', '~1.2.0', etc.",
                          node.id, "invalid-version-syntax") >>
        ELSE IF IncludesChar(version, "-") /\ ~StartsWith(version, "latest")
        THEN << NodeIssue("warning",
                          "Using prerelease version: '" \o version
                             \o "'. Consider using a stable version for production.",
                          node.id, "prerelease-version") >>
        ELSE <<>>

-----------------------------------------------------------------------------
(* Required-input connectivity, src/src/index.ts:726-757 *)

\* first position at which sep occurs in s at or after i, 0 if none
RECURSIVE IndexOf(_, _, _)
IndexOf(s, sep, i) ==
    IF i + Len(sep) - 1 > Len(s) THEN 0
    ELSE IF SubSeq(s, i, i + Len(sep) - 1) = sep THEN i ELSE IndexOf(s, sep, i + 1)

\* s.split(sep).length > 1
SplitsInTwo(s, sep) == IndexOf(s, sep, 1) # 0

\* s.split(sep)[1], for a string that contains sep
SecondPart(s, sep) ==
    LET i == IndexOf(s, sep, 1)
        r == From(s, i + Len(sep))
        j == IndexOf(r, sep, 1)
    IN  IF j = 0 THEN r ELSE SubSeq(r, 1, j - 1)

\* the callback handed to this.edges.some
EdgeTargetsInput(edge, nodeId, inputId) ==
    IF edge.target # nodeId THEN FALSE
    ELSE IF Falsy(edge.targetHandle) THEN FALSE
    ELSE IF edge.targetHandle = inputId THEN TRUE
    ELSE SplitsInTwo(edge.targetHandle, "__")
         /\ SecondPart(edge.targetHandle, "__") = inputId

\* isInputConnected reads this.edges, here thisEdges
isInputConnected(thisEdges, nodeId, inputId) ==
    IF ~TruthyV(thisEdges) \/ Len(thisEdges.items) = 0 THEN FALSE
    ELSE \E i \in 1..Len(thisEdges.items) :
            EdgeTargetsInput(thisEdges.items[i], nodeId, inputId)

-----------------------------------------------------------------------------
(* Input/output contract of one node, src/src/index.ts:381-496 *)

\* nodeInputsMap.get(id): a later input with the same id replaces an earlier one
RECURSIVE MapGet(_, _, _)
MapGet(inputs, id, i) ==
    IF i = 0 THEN [found |-> FALSE, input |-> [id |-> Undefined, value |-> UndefinedV]]
    ELSE IF inputs[i].id = id THEN [found |-> TRUE, input |-> inputs[i]]
    ELSE MapGet(inputs, id, i - 1)

\* the body of definition.requiredInputs.forEach
RequiredInputIssues(thisEdges, node, inputs, requiredInput) ==
    LET got == MapGet(inputs, requiredInput, Len(inputs))
    IN  IF ~got.found
        THEN << Issue("error", "Missing required input: " \o requiredInput, node.id,
                      "node", "missing-required-input", requiredInput, "input") >>
        ELSE LET isConnected == isInputConnected(thisEdges, node.id, requiredInput)
                 hasValue == got.input.value.kind \notin {"undefined", "null"}
             IN  IF ~hasValue /\ ~isConnected
                 THEN << Issue("error",
                               "Required input \"" \o requiredInput
                                  \o "\" has no value and is not connected",
                               node.id, "node", "required-input-empty",
                               requiredInput, "input") >>
                 ELSE <<>>

RECURSIVE RequiredInputsLoop(_, _, _, _, _)
RequiredInputsLoop(thisEdges, node, inputs, required, i) ==
    IF i > Len(required) THEN <<>>
    ELSE RequiredInputIssues(thisEdges, node, inputs, required[i])
         \o RequiredInputsLoop(thisEdges, node, inputs, required, i + 1)

\* the body of node.data.inputs.forEach; index is the 0-based JS index
InputIssues(node, definition, input, index) ==
    LET allValidInputs == definition.requiredInputs \o definition.optionalInputs
    IN  (IF Falsy(input.id)
         THEN << NodeIssue("error",
                           "Node " \o Str(node.id) \o " input at index " \o NumStr(index)
                              \o " is missing id",
                           node.id, "missing-input-id") >>
         ELSE <<>>)
        \o
        (IF Truthy(input.id) /\ ~Includes(allValidInputs, input.id)
         THEN << NodeIssue("warning",
                           "Node " \o Str(node.id) \o " has unknown input: " \o input.id,
                           node.id, "unknown-input") >>
         ELSE <<>>)

RECURSIVE InputsLoop(_, _, _, _)
InputsLoop(node, definition, inputs, i) ==
    IF i > Len(inputs) THEN <<>>
    ELSE InputIssues(node, definition, inputs[i], i - 1)
         \o InputsLoop(node, definition, inputs, i + 1)

\* typeof x === "boolean" for the isDeleted field of an output
TrueB == "<true>"
FalseB == "<false>"
IsBoolean(x) == x \in {TrueB, FalseB}

\* the body of node.data.outputs.forEach
OutputIssues(node, definition, output, index) ==
    (IF Falsy(output.id)
     THEN << NodeIssue("error",
                       "Node " \o Str(node.id) \o " output at index " \o NumStr(index)
                          \o " is missing id",
                       node.id, "missing-output-id") >>
     ELSE <<>>)
    \o
    (IF output.isDeleted # Undefined /\ ~IsBoolean(output.isDeleted)
     THEN << NodeIssue("error",
                       "Node " \o Str(node.id) \o " output " \o Str(output.id)
                          \o " must have boolean isDeleted field",
                       node.id, "invalid-output-isdeleted") >>
     ELSE <<>>)
    \o
    (IF Truthy(output.id) /\ ~Includes(definition.outputs, output.id)
     THEN << NodeIssue("warning",
                       "Node " \o Str(node.id) \o " has unknown output: " \o output.id,
                       node.id, "unknown-output") >>
     ELSE <<>>)

RECURSIVE OutputsLoop(_, _, _, _)
OutputsLoop(node, definition, outputs, i) ==
    IF i > Len(outputs) THEN <<>>
    ELSE OutputIssues(node, definition, outputs[i], i - 1)
         \o OutputsLoop(node, definition, outputs, i + 1)

\* the definition after lintNodeInputsOutputs: allValidInputs is a new array,
\* [...definition.requiredInputs, ...definition.optionalInputs], and the arrays
\* of the definition are only read (forEach, includes)
DefinitionAfter(definition) == definition

\* node.data.inputs of a node without a data object cannot be read: a TypeError.
\* So is calling map / forEach on inputs or outputs that are truthy but no array.
lintNodeInputsOutputs(thisEdges, node, definition) ==
    IF node.data.kind # "object" THEN Threw
    ELSE IF TruthyV(node.data.inputs) /\ ~IsArray(node.data.inputs) THEN Threw
    ELSE IF TruthyV(node.data.outputs) /\ ~IsArray(node.data.outputs) THEN Threw
    ELSE LET inputs == node.data.inputs.items      \* node.data.inputs || []
             outputs == node.data.outputs.items
         IN  Returned(
                RequiredInputsLoop(thisEdges, node, inputs, definition.requiredInputs, 1)
                \o InputsLoop(node, definition, inputs, 1)
                \o OutputsLoop(node, definition, outputs, 1))

-----------------------------------------------------------------------------
(* Per-node checks, src/src/index.ts:271-376 and 801-811 *)

NODE_WIDTH == 100
NODE_HEIGHT == 50

\* A coordinate is [num |-> TRUE, v |-> n] for the number n; a coordinate that is
\* no number is the value undefined, [num |-> FALSE, v |-> 0], which arithmetic
\* turns into NaN: every comparison with it is false.
Num(n) == [num |-> TRUE, v |-> n]
NotANumber == [num |-> FALSE, v |-> 0]
Plus(a, n) == IF a.num THEN Num(a.v + n) ELSE NotANumber
Less(a, b) == a.num /\ b.num /\ a.v < b.v

NoPosition == [kind |-> "undefined", x |-> NotANumber, y |-> NotANumber]
Position(x, y) == [kind |-> "object", x |-> x, y |-> y]

checkPositionOverlap(pos1, pos2) ==
    /\ Less(pos1.x, Plus(pos2.x, NODE_WIDTH))
    /\ Less(pos2.x, Plus(pos1.x, NODE_WIDTH))
    /\ Less(pos1.y, Plus(pos2.y, NODE_HEIGHT))
    /\ Less(pos2.y, Plus(pos1.y, NODE_HEIGHT))

\* this.options?.mode !== "node"
NotNodeMode(thisOptions) == ~(thisOptions.kind = "object" /\ thisOptions.mode = "node")

\* the inner nodes.forEach((otherNode) => ...) of the overlap check
RECURSIVE OverlapLoop(_, _, _)
OverlapLoop(node, nodes, j) ==
    IF j > Len(nodes) THEN <<>>
    ELSE LET otherNode == nodes[j]
         IN  (IF /\ node.id # otherNode.id
                 /\ otherNode.position.kind = "object"
                 /\ checkPositionOverlap(node.position, otherNode.position)
              THEN << NodeIssue("warning",
                                "Node overlaps with node " \o Str(otherNode.id),
                                node.id, "node-position-overlap") >>
              ELSE <<>>)
             \o OverlapLoop(node, nodes, j + 1)

\* nodeIds.has(node.id): the duplicate-id check of a node that has an id
DuplicateIdIssues(node, nodeIds) ==
    IF node.id \in nodeIds
    THEN << NodeIssue("error", "Duplicate node ID: " \o node.id, node.id,
                      "duplicate-node-id") >>
    ELSE <<>>

\* nodeIds.add(node.id)
AddNodeId(nodeIds, node) == nodeIds \cup {node.id}

\* as TypeIssues, were a type outside the registry let through
TypeIssues_UnknownAccepted(node) ==
    IF Falsy(node.type)
    THEN << NodeIssue("error", "Node is missing required field: type", node.id,
                      "missing-node-type") >>
    ELSE <<>>

TypeIssues(node) ==
    IF Falsy(node.type)
    THEN << NodeIssue("error", "Node is missing required field: type", node.id,
                      "missing-node-type") >>
    ELSE IF ~KnownType(node.type)
    THEN << NodeIssue("error", "Unknown node type: " \o node.type, node.id,
                      "invalid-node-type") >>
    ELSE <<>>

PositionIssues(node) ==
    IF node.position.kind # "object"
    THEN << NodeIssue("error", "Node is missing required field: position", node.id,
                      "missing-node-position") >>
    ELSE IF ~node.position.x.num \/ ~node.position.y.num
    THEN << NodeIssue("error", "Node position must have numeric x and y coordinates",
                      node.id, "invalid-node-position") >>
    ELSE <<>>

\* as OverlapIssues, were the check not skipped in node mode
OverlapIssues_AnyMode(thisOptions, node, nodes) ==
    IF node.position.kind = "object" THEN OverlapLoop(node, nodes, 1) ELSE <<>>

\* the position-overlap check of one node, skipped in node mode
OverlapIssues(thisOptions, node, nodes) ==
    IF node.position.kind = "object" /\ NotNodeMode(thisOptions)
    THEN OverlapLoop(node, nodes, 1)
    ELSE <<>>

\* nodes.forEach((node, index) => ...), from the node at i on, with the issues
\* pushed and the ids seen so far; an exception leaves the loop and the function
RECURSIVE NodesLoop(_, _, _, _, _, _)
NodesLoop(thisOptions, thisEdges, nodes, i, issues, nodeIds) ==
    IF i > Len(nodes) THEN Returned(issues)
    ELSE LET node == nodes[i]
         IN  IF Falsy(node.id)
             THEN NodesLoop(thisOptions, thisEdges, nodes, i + 1,
                            Append(issues,
                                   Issue("error",
                                         "Node at index " \o NumStr(i - 1)
                                            \o " is missing required field: id",
                                         Undefined, "node", "missing-node-id",
                                         Undefined, Undefined)),
                            nodeIds)
             ELSE LET head == DuplicateIdIssues(node, nodeIds) \o TypeIssues(node)
                                  \o PositionIssues(node)
                      io == IF Truthy(node.type) /\ KnownType(node.type)
                            THEN lintNodeInputsOutputs(thisEdges, node,
                                                       NODE_DEFINITIONS[node.type])
                            ELSE Returned(<<>>)
                  IN  IF io.threw THEN Threw
                      ELSE NodesLoop(thisOptions, thisEdges, nodes, i + 1,
                                     issues \o head \o io.issues
                                        \o lintNodeVersion(node)
                                        \o OverlapIssues(thisOptions, node, nodes),
                                     AddNodeId(nodeIds, node))

lintNodes(thisOptions, thisEdges, nodes) ==
    NodesLoop(thisOptions, thisEdges, nodes, 1, <<>>, {})

-----------------------------------------------------------------------------
(* Edge checks, src/src/index.ts:501-640 *)

\* nodeMap.has(id) and nodeMap.get(id): a later node with the same id replaces
\* an earlier one
MapHas(nodes, id) == \E i \in 1..Len(nodes) : nodes[i].id = id
RECURSIVE MapGetNode(_, _, _)
MapGetNode(nodes, id, i) ==
    IF nodes[i].id = id THEN nodes[i] ELSE MapGetNode(nodes, id, i - 1)

\* handle.endsWith("-handle") ? handle.slice(0, -7) : handle
StripHandle(handle) ==
    IF EndsWith(handle, "-handle") THEN SubSeq(handle, 1, Len(handle) - 7) ELSE handle

\* String.prototype.trim
WhitespaceChars == {" ", "\t", "\n", "\r"}
RECURSIVE TrimStart(_)
TrimStart(s) ==
    IF Len(s) > 0 /\ CharAt(s, 1) \in WhitespaceChars THEN TrimStart(From(s, 2)) ELSE s
RECURSIVE TrimEnd(_)
TrimEnd(s) ==
    IF Len(s) > 0 /\ CharAt(s, Len(s)) \in WhitespaceChars
    THEN TrimEnd(SubSeq(s, 1, Len(s) - 1)) ELSE s
Trim(s) == TrimEnd(TrimStart(s))

\* fields.map((field) => field.id), for inputs and for outputs
RECURSIVE FieldIds(_, _)
FieldIds(inputs, i) ==
    IF i > Len(inputs) THEN <<>> ELSE <<inputs[i].id>> \o FieldIds(inputs, i + 1)

\* inputs.find((input) => input.id === "parameters")?.value
RECURSIVE FindParameters(_, _)
FindParameters(inputs, i) ==
    IF i > Len(inputs) THEN UndefinedV
    ELSE IF inputs[i].id = "parameters" THEN inputs[i].value
    ELSE FindParameters(inputs, i + 1)

\* A parameter is [kind, name]: kind "string" for the string name itself, kind
\* "object" for an object whose name field is name (Undefined when it has no
\* string name), kind "null" for null or undefined.
ParamName(param) ==
    IF param.kind = "string" THEN param.name
    ELSE IF param.kind = "object" THEN param.name
    ELSE Undefined

\* parameterValue.forEach((param) => ...), pushing onto handleIds
RECURSIVE ParametersLoop(_, _, _)
ParametersLoop(params, i, handleIds) ==
    IF i > Len(params) THEN handleIds
    ELSE LET paramName == ParamName(params[i])
             normalized == IF Truthy(paramName) THEN Trim(paramName) ELSE ""
         IN  ParametersLoop(params, i + 1,
                            IF /\ Truthy(paramName)
                               /\ Truthy(normalized)
                               /\ ~Includes(handleIds, normalized)
                            THEN Append(handleIds, normalized)
                            ELSE handleIds)

\* getValidInputHandles builds a new array; node.data?.inputs is not written
getValidInputHandles(node) ==
    LET inputs == IF node.data.kind = "object" /\ TruthyV(node.data.inputs)
                  THEN node.data.inputs.items ELSE <<>>
        handleIds == FieldIds(inputs, 1)
        parameterValue == FindParameters(inputs, 1)
    IN  IF node.type = "ai_model_node" /\ IsArray(parameterValue)
        THEN ParametersLoop(parameterValue.items, 1, handleIds)
        ELSE handleIds

\* as InputsAfterHandles, were handleIds the inputs array itself and not the
\* array inputs.map returns: every pushed name becomes an entry of the inputs
InputsAfterHandles_Aliased(node) ==
    IF node.data.kind = "object" /\ IsArray(node.data.inputs)
    THEN LET handleIds == getValidInputHandles(node)
             n == Len(node.data.inputs.items)
         IN  Arr(node.data.inputs.items
                 \o [k \in 1..(Len(handleIds) - n) |->
                        [id |-> handleIds[n + k], value |-> UndefinedV]])
    ELSE node.data.inputs

\* node.data.inputs after getValidInputHandles(node): handleIds is the new array
\* that inputs.map returns, so handleIds.push writes to no array of the node
InputsAfterHandles(node) == node.data.inputs

\* calling map on inputs that are truthy but no array is a TypeError
getValidInputHandlesThrows(node) ==
    node.data.kind = "object" /\ TruthyV(node.data.inputs) /\ ~IsArray(node.data.inputs)

\* the four missing-field checks and the two node-existence checks of one edge
EdgeFieldIssues(edge, nodes, index) ==
    (IF Falsy(edge.source)
     THEN << EdgeIssue("Edge at index " \o NumStr(index)
                          \o " is missing required field: source",
                       "missing-edge-source") >>
     ELSE <<>>)
    \o
    (IF Falsy(edge.sourceHandle)
     THEN << EdgeIssue("Edge at index " \o NumStr(index)
                          \o " is missing required field: sourceHandle",
                       "missing-edge-sourcehandle") >>
     ELSE <<>>)
    \o
    (IF Falsy(edge.target)
     THEN << EdgeIssue("Edge at index " \o NumStr(index)
                          \o " is missing required field: target",
                       "missing-edge-target") >>
     ELSE <<>>)
    \o
    (IF Falsy(edge.targetHandle)
     THEN << EdgeIssue("Edge at index " \o NumStr(index)
                          \o " is missing required field: targetHandle",
                       "missing-edge-targethandle") >>
     ELSE <<>>)
    \o
    (IF Truthy(edge.source) /\ ~MapHas(nodes, edge.source)
     THEN << EdgeIssue("Edge references non-existent source node: " \o edge.source,
                       "invalid-edge-source-node") >>
     ELSE <<>>)
    \o
    (IF Truthy(edge.target) /\ ~MapHas(nodes, edge.target)
     THEN << EdgeIssue("Edge references non-existent target node: " \o edge.target,
                       "invalid-edge-target-node") >>
     ELSE <<>>)

\* the source-handle check; sourceNode.data.outputs of a node without a data
\* object cannot be read, and map is no method of a truthy non-array
EdgeSourceHandle(edge, nodes) ==
    IF Truthy(edge.source) /\ Truthy(edge.sourceHandle) /\ MapHas(nodes, edge.source)
    THEN LET sourceNode == MapGetNode(nodes, edge.source, Len(nodes))
         IN  IF sourceNode.data.kind # "object" THEN Threw
             ELSE IF TruthyV(sourceNode.data.outputs) /\ ~IsArray(sourceNode.data.outputs)
             THEN Threw
             ELSE LET sourceOutputs == FieldIds(sourceNode.data.outputs.items, 1)
                      handleToCheck == StripHandle(edge.sourceHandle)
                  IN  IF ~Includes(sourceOutputs, handleToCheck)
                      THEN Returned(<< EdgeIssue(
                              "Edge references non-existent output handle "
                                 \o edge.sourceHandle \o " on node " \o edge.source,
                              "invalid-edge-source-handle") >>)
                      ELSE Returned(<<>>)
    ELSE Returned(<<>>)

\* the target-handle check
EdgeTargetHandle(edge, nodes) ==
    IF Truthy(edge.target) /\ Truthy(edge.targetHandle) /\ MapHas(nodes, edge.target)
    THEN LET targetNode == MapGetNode(nodes, edge.target, Len(nodes))
         IN  IF getValidInputHandlesThrows(targetNode) THEN Threw
             ELSE LET targetInputs == getValidInputHandles(targetNode)
                      handleToCheck == StripHandle(edge.targetHandle)
                  IN  IF ~Includes(targetInputs, handleToCheck)
                      THEN Returned(<< EdgeIssue(
                              "Edge references non-existent input handle "
                                 \o edge.targetHandle \o " on node " \o edge.target,
                              "invalid-edge-target-handle") >>)
                      ELSE Returned(<<>>)
    ELSE Returned(<<>>)

\* edges.forEach((edge, index) => ...), from the edge at i on
RECURSIVE EdgesLoop(_, _, _, _)
EdgesLoop(edgeList, nodes, i, issues) ==
    IF i > Len(edgeList) THEN Returned(issues)
    ELSE LET edge == edgeList[i]
             src == EdgeSourceHandle(edge, nodes)
             tgt == EdgeTargetHandle(edge, nodes)
         IN  IF src.threw \/ tgt.threw THEN Threw
             ELSE EdgesLoop(edgeList, nodes, i + 1,
                            issues \o EdgeFieldIssues(edge, nodes, i - 1)
                               \o src.issues \o tgt.issues)

lintEdges(edgeList, nodes) == EdgesLoop(edgeList, nodes, 1, <<>>)

\* the nodes as edges.forEach leaves them: the target-handle check of an edge
\* calls getValidInputHandles on the target node; an exception ends the loop
RECURSIVE NodesAfterEdges(_, _, _)
NodesAfterEdges(edgeList, nodes, i) ==
    IF i > Len(edgeList) THEN nodes
    ELSE LET edge == edgeList[i]
         IN  IF EdgeSourceHandle(edge, nodes).threw THEN nodes
             ELSE IF Truthy(edge.target) /\ Truthy(edge.targetHandle)
                     /\ MapHas(nodes, edge.target)
             THEN LET k == CHOOSE k \in 1..Len(nodes) :
                              /\ nodes[k].id = edge.target
                              /\ \A j \in (k + 1)..Len(nodes) : nodes[j].id # edge.target
                  IN  IF getValidInputHandlesThrows(nodes[k]) THEN nodes
                      ELSE NodesAfterEdges(
                              edgeList,
                              [nodes EXCEPT ![k].data.inputs = InputsAfterHandles(nodes[k])],
                              i + 1)
             ELSE NodesAfterEdges(edgeList, nodes, i + 1)

-----------------------------------------------------------------------------
(* Graph analysis, src/src/index.ts:645-721 *)

\* the set filled by data.edges.forEach: both ends of every edge
ConnectedNodes(edgeList) ==
    {edgeList[i].source : i \in 1..Len(edgeList)}
        \cup {edgeList[i].target : i \in 1..Len(edgeList)}

RECURSIVE IsolatedLoop(_, _, _)
IsolatedLoop(nodes, connectedNodes, i) ==
    IF i > Len(nodes) THEN <<>>
    ELSE (IF nodes[i].id \notin connectedNodes /\ Len(nodes) > 1
          THEN << NodeIssue("warning",
                            "Node " \o Str(nodes[i].id)
                               \o " is isolated (not connected to any other nodes)",
                            nodes[i].id, "isolated-node") >>
          ELSE <<>>)
         \o IsolatedLoop(nodes, connectedNodes, i + 1)

\* path.indexOf(nodeId) as a 1-based position, 0 when nodeId is not on the path
RECURSIVE PathIndexOf(_, _, _)
PathIndexOf(path, nodeId, i) ==
    IF i > Len(path) THEN 0
    ELSE IF path[i] = nodeId THEN i ELSE PathIndexOf(path, nodeId, i + 1)

\* path.slice(cycleStart).concat(nodeId); slice(-1) is the last element of path
CyclePath(path, nodeId) ==
    LET k == PathIndexOf(path, nodeId, 1)
        from == IF k > 0 THEN k ELSE IF Len(path) = 0 THEN 1 ELSE Len(path)
    IN  SubSeq(path, from, Len(path)) \o <<nodeId>>

\* cycle.join(" -> ")
RECURSIVE Join(_, _)
Join(seq, sep) ==
    IF Len(seq) = 0 THEN ""
    ELSE IF Len(seq) = 1 THEN JoinStr(seq[1])
    ELSE JoinStr(seq[1]) \o sep \o Join(Tail(seq), sep)

\* data.edges.filter((edge) => edge.source === nodeId)
RECURSIVE OutgoingEdges(_, _, _)
OutgoingEdges(edgeList, nodeId, i) ==
    IF i > Len(edgeList) THEN <<>>
    ELSE (IF edgeList[i].source = nodeId THEN <<edgeList[i]>> ELSE <<>>)
         \o OutgoingEdges(edgeList, nodeId, i + 1)

\* dfs(nodeId, path) on the state st = [issues, visited, recursionStack] that the
\* closure shares; the resulting state and, in found, the value dfs returns
RECURSIVE dfs(_, _, _, _), dfsLoop(_, _, _, _, _, _)
dfs(edgeList, nodeId, path, st) ==
    IF nodeId \in st.recursionStack
    THEN [st EXCEPT !.found = TRUE,
                    !.issues = Append(@, FlowIssue(
                        "Circular dependency detected: "
                           \o Join(CyclePath(path, nodeId), " -> "),
                        "circular-dependency"))]
    ELSE IF nodeId \in st.visited THEN [st EXCEPT !.found = FALSE]
    ELSE dfsLoop(edgeList, nodeId, path,
                 OutgoingEdges(edgeList, nodeId, 1), 1,
                 [st EXCEPT !.visited = @ \cup {nodeId},
                            !.recursionStack = @ \cup {nodeId}])

\* for (const edge of outgoingEdges) ..., then recursionStack.delete(nodeId)
dfsLoop(edgeList, nodeId, path, outgoingEdges, k, st) ==
    IF k > Len(outgoingEdges)
    THEN [st EXCEPT !.found = FALSE, !.recursionStack = @ \ {nodeId}]
    ELSE LET r == dfs(edgeList, outgoingEdges[k].target, Append(path, nodeId), st)
         IN  IF r.found THEN r
             ELSE dfsLoop(edgeList, nodeId, path, outgoingEdges, k + 1, r)

\* data.nodes.forEach((node) => { if (!visited.has(node.id)) dfs(node.id, []) })
RECURSIVE RootsLoop(_, _, _, _)
RootsLoop(nodes, edgeList, i, st) ==
    IF i > Len(nodes) THEN st
    ELSE RootsLoop(nodes, edgeList, i + 1,
                   IF nodes[i].id \notin st.visited
                   THEN dfs(edgeList, nodes[i].id, <<>>, st)
                   ELSE st)

detectCycles(nodes, edgeList) ==
    RootsLoop(nodes, edgeList, 1,
              [found |-> FALSE, issues |-> <<>>, visited |-> {},
               recursionStack |-> {}]).issues

lintFlowIntegrity(nodes, edgeList) ==
    IsolatedLoop(nodes, ConnectedNodes(edgeList), 1) \o detectCycles(nodes, edgeList)

-----------------------------------------------------------------------------
(* TFLLint.lintFlow, src/src/index.ts:218-266 *)

NullData == [kind |-> "null", nodes |-> UndefinedV, edges |-> UndefinedV]
UndefinedData == [kind |-> "undefined", nodes |-> UndefinedV, edges |-> UndefinedV]
FlowData(nodes, edgs) == [kind |-> "object", nodes |-> nodes, edges |-> edgs]

\* as AssignEdges, were the cache filled once and kept
AssignEdges_KeepFilled(this, d) ==
    IF TruthyV(this.edges) /\ Len(this.edges.items) > 0 THEN this
    ELSE [this EXCEPT !.edges = IF TruthyV(d.edges) THEN d.edges ELSE Arr(<<>>)]

\* this.edges = data.edges || []
AssignEdges(this, d) ==
    [this EXCEPT !.edges = IF TruthyV(d.edges) THEN d.edges ELSE Arr(<<>>)]

\* as NodesInvalid, were an empty nodes array refused too
NodesInvalid_EmptyRefused(d) ==
    ~TruthyV(d.nodes) \/ ~IsArray(d.nodes) \/ Len(d.nodes.items) = 0

\* !data.nodes || !Array.isArray(data.nodes)
NodesInvalid(d) == ~TruthyV(d.nodes) \/ ~IsArray(d.nodes)

\* !Array.isArray(data.nodes), the second test of the nodes field
NodesNotArray(d) == ~IsArray(d.nodes)

\* as EdgesNotArray, were the test !data.edges
EdgesNotArray_Falsy(d) == ~TruthyV(d.edges)

\* !Array.isArray(data.edges)
EdgesNotArray(d) == ~IsArray(d.edges)

\* as RunChecks, were the graph analysis pushed before the edge checks
RunChecks_IntegrityBeforeEdges(this, d) ==
    LET n == lintNodes(this.options, this.edges, d.nodes.items)
    IN  IF n.threw THEN Threw
        ELSE IF ~NotNodeMode(this.options) THEN n
        ELSE LET e == lintEdges(d.edges.items, d.nodes.items)
             IN  IF e.threw THEN Threw
                 ELSE Returned(n.issues
                                  \o lintFlowIntegrity(d.nodes.items, d.edges.items)
                                  \o e.issues)

\* the three stages that run once the shape of the data is accepted
RunChecks(this, d) ==
    LET n == lintNodes(this.options, this.edges, d.nodes.items)
    IN  IF n.threw THEN Threw
        ELSE IF ~NotNodeMode(this.options) THEN n
        ELSE LET e == lintEdges(d.edges.items, d.nodes.items)
             IN  IF e.threw THEN Threw
                 ELSE Returned(n.issues \o e.issues
                                  \o lintFlowIntegrity(d.nodes.items, d.edges.items))

\* the graph as a call with this outcome leaves it: the only stage that calls
\* anything that pushes onto an array is lintEdges, reached in flow mode once
\* the shape is accepted and lintNodes has returned
GraphAfter(this, d, outcome) ==
    IF \/ d.kind # "object" \/ NodesInvalid(d) \/ NodesNotArray(d) \/ EdgesNotArray(d)
       \/ ~NotNodeMode(this.options)
    THEN d
    ELSE IF outcome.threw /\ lintNodes(this.options, this.edges, d.nodes.items).threw
    THEN d
    ELSE [d EXCEPT !.nodes.items = NodesAfterEdges(d.edges.items, @, 1)]

\* NODE_DEFINITIONS as a call leaves it: lintNodes hands the definition of every
\* node of a registry type to lintNodeInputsOutputs
RegistryAfter(reg, d) ==
    [t \in DOMAIN reg |->
        IF /\ d.kind = "object" /\ IsArray(d.nodes)
           /\ \E k \in 1..Len(d.nodes.items) : d.nodes.items[k].type = t
        THEN DefinitionAfter(reg[t]) ELSE reg[t]]

\* lintFlow(data) on the instance this = [options, edges]: the instance it leaves,
\* the outcome and the graph as the call leaves it.  Reading data.edges of null or undefined is a TypeError,
\* raised before the assignment to this.edges.
lintFlow(this, d) ==
    IF d.kind # "object" THEN [this |-> this, outcome |-> Threw, data |-> d]
    ELSE LET this1 == AssignEdges(this, d)
             outcome ==
                 IF NodesInvalid(d)
                 THEN Returned(<< FlowIssue("Flow data is null or undefined",
                                            "invalid-flow-data") >>)
                 ELSE IF NodesNotArray(d)
                 THEN Returned(<< FlowIssue("Flow data must have a nodes array",
                                            "missing-nodes-array") >>)
                 ELSE IF EdgesNotArray(d)
                 THEN Returned(<< FlowIssue("Flow data must have an edges array",
                                            "missing-edges-array") >>)
                 ELSE RunChecks(this1, d)
         IN  [this |-> this1, outcome |-> outcome,
              data |-> GraphAfter(this1, d, outcome)]

-----------------------------------------------------------------------------
(* The linter instance and the entry points, src/src/index.ts:207-213, 914-928 *)

NoOptions == [kind |-> "undefined", strict |-> Undefined, mode |-> Undefined]
Options(strict, mode) == [kind |-> "object", strict |-> strict, mode |-> mode]

\* new TFLLint(options)
NewTFLLint(o) == [options |-> o, edges |-> Arr(<<>>)]

\* as SpreadWithNodeMode, were the spread written last: { mode: "node", ...options }
SpreadWithNodeMode_OptionsLast(o) ==
    IF o.kind = "object" /\ o.mode # Undefined THEN o
    ELSE Options(IF o.kind = "object" THEN o.strict ELSE Undefined, "node")

\* { ...options, mode: "node" }
SpreadWithNodeMode(o) ==
    IF o.kind = "object" THEN [o EXCEPT !.mode = "node"] ELSE Options(Undefined, "node")

\* the exported function lintFlow(data, options)
lintFlowFn(d, o) == lintFlow(NewTFLLint(o), d)

\* the exported function lintNodeExecution(data, options)
lintNodeExecution(d, o) == lintFlow(NewTFLLint(SpreadWithNodeMode(o)), d)

\* before any call there is no outcome
NoCall == Returned(<<>>)

\* new TFLLint(o): a fresh linter for the graph at hand
Construct(OptionsSet) ==
    \E o \in OptionsSet :
        /\ options' = o
        /\ edges' = NewTFLLint(o).edges
        /\ entry' = "constructor"
        /\ optionsArg' = o
        /\ result' = NoCall
        /\ prevEdges' = NewTFLLint(o).edges
        /\ UNCHANGED <<data, registry>>

\* linter.lintFlow(d) on the linter at hand
LintFlowCall(d) ==
    \E r \in {lintFlow([options |-> options, edges |-> edges], d)} :
        /\ edges' = r.this.edges
        /\ entry' = "TFLLint.lintFlow"
        /\ optionsArg' = options
        /\ data' = r.data
        /\ result' = r.outcome
        /\ prevEdges' = edges
        /\ registry' = RegistryAfter(registry, d)
        /\ UNCHANGED options

\* lintFlow(d, o): the function constructs the linter it runs
LintFlowFnCall(d, o) ==
    \E r \in {lintFlowFn(d, o)} :
        /\ options' = r.this.options
        /\ edges' = r.this.edges
        /\ entry' = "lintFlow"
        /\ optionsArg' = o
        /\ data' = r.data
        /\ result' = r.outcome
        /\ prevEdges' = NewTFLLint(o).edges
        /\ registry' = RegistryAfter(registry, d)

\* lintNodeExecution(d, o): the function constructs the linter it runs
LintNodeExecutionCall(d, o) ==
    \E r \in {lintNodeExecution(d, o)} :
        /\ options' = r.this.options
        /\ edges' = r.this.edges
        /\ entry' = "lintNodeExecution"
        /\ optionsArg' = o
        /\ data' = r.data
        /\ result' = r.outcome
        /\ prevEdges' = NewTFLLint(o).edges
        /\ registry' = RegistryAfter(registry, d)

-----------------------------------------------------------------------------
(* The graphs and the options the linter is run on *)

MaxNodes == 3      \* nodes of a graph of the duplicate-id family
MaxEdges == 3      \* edges of a graph of the cycle family
MaxContent == 2    \* nodes of a graph of the node-content family

\* the sequences over S of length at most n
RECURSIVE SeqsUpTo(_, _)
SeqsUpTo(S, n) ==
    IF n = 0 THEN {<<>>}
    ELSE LET shorter == SeqsUpTo(S, n - 1)
         IN  shorter \cup {Append(q, x) : q \in {r \in shorter : Len(r) = n - 1}, x \in S}

\* those of them that repeat no element
NoRepeat(q) == \A i, j \in 1..Len(q) : q[i] = q[j] => i = j

Node(id, type, position, version, d) ==
    [id |-> id, type |-> type, position |-> position, version |-> version, data |-> d]
NoData == [kind |-> "undefined", inputs |-> UndefinedV, outputs |-> UndefinedV,
           version |-> Undefined]
Data(inputs, outputs, version) ==
    [kind |-> "object", inputs |-> inputs, outputs |-> outputs, version |-> version]
Input(id, value) == [id |-> id, value |-> value]
Output(id, isDeleted) == [id |-> id, isDeleted |-> isDeleted]
Edge(source, sourceHandle, target, targetHandle) ==
    [source |-> source, sourceHandle |-> sourceHandle, target |-> target,
     targetHandle |-> targetHandle]
Param(kind, name) == [kind |-> kind, name |-> name]

\* a node of a type outside the registry with an empty data object
BareNode(id) ==
    Node(id, "bogus_node", NoPosition, "latest", Data(UndefinedV, UndefinedV, Undefined))

\* the node of the repository's tests: a registry type, inputs and outputs (if
\* any) at top level, no data object
TestNode(id, type, x, y) == Node(id, type, Position(Num(x), Num(y)), Undefined, NoData)

\* an edge between two nodes with both handles named
Link(source, target) == Edge(source, "out", target, "in")

\* top-level shapes: the data, its nodes and its edges present or not, arrays or not
ShapeGraphs ==
    {NullData, UndefinedData}
    \cup {FlowData(n, e) :
            n \in {UndefinedV, NullV, EmptyStringV, ObjectV, Arr(<<>>),
                   Arr(<<TestNode("node1", "x_listener_node", 0, 0)>>)},
            e \in {UndefinedV, NullV, EmptyStringV, ObjectV, Arr(<<>>),
                   Arr(<<Link("node1", "node1")>>)}}

\* graphs of bare nodes whose ids repeat or are missing
DuplicateGraphs ==
    {FlowData(Arr([i \in 1..Len(ids) |-> BareNode(ids[i])]), Arr(<<>>)) :
        ids \in SeqsUpTo({"A", "B", "", Undefined}, MaxNodes)}
    \cup {FlowData(Arr(<<TestNode("node1", "x_listener_node", 0, 0),
                         TestNode("node1", "ai_model_node", 100, 0)>>), Arr(<<>>))}

\* graphs of bare nodes with edges among the ids A, B, C
PairSamples ==
    {<<"A", "B">>, <<"B", "C">>, <<"C", "A">>, <<"B", "A">>, <<"A", "A">>, <<"C", "B">>}
PairLink(p) == Link(p[1], p[2])
CycleGraphs ==
    {FlowData(Arr([i \in 1..Len(ids) |-> BareNode(ids[i])]),
              Arr([i \in 1..Len(ps) |-> PairLink(ps[i])])) :
        ids \in {<<"A", "B", "C">>, <<"C", "A">>, <<"B">>},
        ps \in {q \in SeqsUpTo(PairSamples, MaxEdges) : NoRepeat(q)}}
    \cup {FlowData(Arr(<<TestNode("node1", "ai_model_node", 0, 0),
                         TestNode("node2", "code_node", 200, 0)>>),
                   Arr(<<Edge("node1", "ai_response", "node2", "python_code"),
                         Edge("node2", "output_data", "node1", "prompt")>>))}

\* graphs of nodes with inputs, outputs, versions and positions of every kind
NodeSamples ==
    { Node("A", "x_listener_node", Position(Num(0), Num(0)), "1.2.3",
           Data(Arr(<<Input("accounts", ObjectV), Input("keywords", EmptyStringV)>>),
                Arr(<<Output("latest_tweets", FalseB)>>), Undefined)),
      Node("B", "ai_model_node", Position(Num(10), Num(10)), Undefined,
           Data(Arr(<<Input("model", ObjectV), Input("prompt", UndefinedV),
                      Input("parameters", Arr(<<Param("string", " ctx ")>>)),
                      Input("extra", NullV), Input(Undefined, ObjectV)>>),
                Arr(<<Output("ai_response", Undefined), Output("", "invalid"),
                      Output("debug", TrueB)>>), "1.0.0-beta.1")),
      Node("A", "bogus_node", NoPosition, "latest", NoData),
      Node("", "x_listener_node", Position(Num(0), Num(0)), Undefined, NoData),
      TestNode("C", "x_listener_node", 100, 0),
      Node("C", Undefined, Position(NotANumber, Num(0)), "v1",
           Data(UndefinedV, UndefinedV, Undefined)) }

EdgeListSamples ==
    { <<>>,
      <<Edge("A", "latest_tweets-handle", "B", "prompt")>>,
      <<Edge("B", "ai_response", "A", "B__accounts__x"),
        Edge("A", "latest_tweets", "B", "ctx-handle")>>,
      <<Edge("", Undefined, Undefined, ""), Edge("X", "out", "C", "in"),
        Edge("A", "latest_tweets", "A", "accounts")>> }

ContentGraphs ==
    {FlowData(Arr(n), Arr(e)) : n \in SeqsUpTo(NodeSamples, MaxContent),
                                e \in EdgeListSamples}

\* graphs of two well-formed nodes joined by edges whose handles carry the
\* "-handle" suffix, the "__" separator, parameter names, or nothing
MaxHandleEdges == 2    \* edges of a graph of the handle family

SourceNode ==
    Node("S", "x_listener_node", Position(Num(0), Num(0)), "1.0.0",
         Data(Arr(<<Input("accounts", ObjectV),
                    Input("parameters", Arr(<<Param("string", "extra")>>))>>),
              Arr(<<Output("price", FalseB)>>), Undefined))

TargetNode ==
    Node("T", "ai_model_node", Position(Num(200), Num(0)), "1.0.0",
         Data(Arr(<<Input("model", ObjectV), Input("prompt", NullV),
                    Input("parameters",
                          Arr(<<Param("string", " ctx "), Param("object", "named"),
                                Param("object", Undefined), Param("null", Undefined),
                                Param("string", "  "), Param("string", "prompt")>>))>>),
              Arr(<<Output("ai_response", Undefined)>>), Undefined))

HandleEdgeSamples ==
    << Edge("S", "price-handle", "T", "prompt"),
      Edge("S", "price", "T", "prompt-handle"),
      Edge("S", "price-handle-handle", "T", "ctx-handle"),
      Edge("S", "cost", "T", "ctx"),
      Edge("S", "price", "T", " ctx "),
      Edge("S", "price", "T", "named"),
      Edge("S", "price", "T", "T__prompt"),
      Edge("S", "price", "T", "T__prompt-handle"),
      Edge("S", "price", "T", "x__prompt__y"),
      Edge("T", "ai_response-handle", "S", "extra"),
      Edge("T", "ai_response", "S", "accounts-handle"),
      Edge("T", "", "S", Undefined),
      Edge("Z", "price", "T", "model"),
      Edge("S", "price", "Z", "prompt") >>

\* the edge lists drawn from the samples in their order, MaxHandleEdges at most
HandleEdgeLists ==
    {[k \in 1..Len(ix) |-> HandleEdgeSamples[ix[k]]] :
        ix \in {q \in SeqsUpTo(1..Len(HandleEdgeSamples), MaxHandleEdges) :
                   \A k \in 1..(Len(q) - 1) : q[k] < q[k + 1]}}

HandleGraphs ==
    {FlowData(Arr(n), Arr(e)) :
        n \in {<<SourceNode, TargetNode>>, <<TargetNode>>},
        e \in HandleEdgeLists}

\* graphs of one node of a type outside the registry, with every kind of
\* position, version and data, and no edge
UnknownTypeGraphs ==
    {FlowData(Arr(<<Node("node1", "invalid_type", p, v, d)>>), Arr(<<>>)) :
        p \in {NoPosition, Position(Num(0), Num(0)), Position(NotANumber, Num(0))},
        v \in {Undefined, "", "latest", "v1", "1.0.0-beta.1", "latest-beta", "1.2.3",
               "1.2.3-beta.1", "1.2.3+build.5", "^1.2.0", "~1.2.0", ">=1.0.0", "<2.0.0",
               "latest-", "^1.2.0-rc"},
        d \in {NoData,
               Data(Arr(<<Input("anything", NullV), Input(Undefined, ObjectV)>>),
                    Arr(<<Output("", "invalid")>>), Undefined)}}

\* graphs of two nodes at (0,0) and (10,10) and no edge
OverlapPairGraphs ==
    {FlowData(Arr(<<Node("node1", t1, Position(Num(0), Num(0)), Undefined, d),
                    Node("node2", t2, Position(Num(10), Num(10)), Undefined, d)>>),
              Arr(<<>>)) :
        t1 \in {"x_listener_node", "invalid_type"},
        t2 \in {"ai_model_node", "invalid_type"},
        d \in {NoData, Data(UndefinedV, UndefinedV, Undefined)}}

\* graphs of one node of a registry type with a data object: its inputs absent,
\* without value, with an empty value, unknown, named by a parameter, repeated;
\* its outputs with every kind of id and isDeleted; an edge into a required field
InputListSamples ==
    { UndefinedV,
      Arr(<<>>),
      Arr(<<Input("model", EmptyStringV), Input("prompt", Arr(<<>>)),
            Input("accounts", ObjectV)>>),
      Arr(<<Input("model", ObjectV), Input("prompt", NullV),
            Input("accounts", UndefinedV)>>),
      Arr(<<Input("prompt", UndefinedV),
            Input("parameters", Arr(<<Param("string", "ctx"), Param("object", "named")>>)),
            Input("ctx", ObjectV), Input("named", NullV), Input("other", ObjectV)>>),
      Arr(<<Input("accounts", Arr(<<>>)), Input("unknown_input", ObjectV)>>),
      Arr(<<Input("prompt", ObjectV), Input("prompt", NullV),
            Input("model", NullV), Input("model", ObjectV)>>),
      Arr(<<Input(Undefined, ObjectV), Input("", NullV), Input("keywords", NullV)>>) }

OutputListSamples ==
    { UndefinedV,
      Arr(<<Output("ai_response", Undefined), Output("latest_tweets", FalseB)>>),
      Arr(<<Output("latest tweets", "invalid")>>),
      Arr(<<Output(Undefined, TrueB), Output("", Null), Output("ai_response", "invalid"),
            Output("data", Undefined), Output(Null, Undefined)>>) }

ContractGraphs ==
    {FlowData(Arr(<<Node("N", t, Position(Num(0), Num(0)), "1.0.0",
                         Data(i, o, Undefined))>>), Arr(e)) :
        t \in {"ai_model_node", "x_listener_node"},
        i \in InputListSamples,
        o \in OutputListSamples,
        e \in {<<>>, <<Edge("N", "ai_response", "N", "prompt")>>,
               <<Edge("N", "latest_tweets-handle", "N", "N__accounts")>>}}

\* graphs of nodes of a type outside the registry whose rectangles overlap, touch
\* or lie apart, or whose position is absent or not numeric; the id P may repeat
PositionSamples ==
    {NoPosition, Position(NotANumber, Num(0)), Position(Num(0), Num(0)),
     Position(Num(99), Num(49)), Position(Num(100), Num(0)), Position(Num(0), Num(50)),
     Position(Num(-99), Num(-49))}

PositionGraphs ==
    {FlowData(Arr(<<Node("P", "bogus_node", p, "latest", NoData),
                    Node("Q", "bogus_node", q, "latest", NoData)>>), Arr(<<>>)) :
        p \in PositionSamples, q \in PositionSamples}
    \cup {FlowData(Arr(<<Node("P", "bogus_node", p, "latest", NoData),
                         Node(id, "bogus_node", q, "latest", NoData),
                         Node("P", "bogus_node", Position(Num(50), Num(25)), "latest",
                              NoData)>>), Arr(<<>>)) :
             p \in PositionSamples, q \in PositionSamples, id \in {"Q", ""}}

Graphs ==
    ShapeGraphs \cup DuplicateGraphs \cup CycleGraphs \cup ContentGraphs
    \cup HandleGraphs \cup UnknownTypeGraphs \cup OverlapPairGraphs
    \cup ContractGraphs \cup PositionGraphs

OptionsSamples == {NoOptions, Options(TrueB, "flow"), Options(Undefined, "node")}

-----------------------------------------------------------------------------
(* Spec: a caller holds one graph and lints it through every entry point *)

Init ==
    /\ options \in OptionsSamples
    /\ edges = NewTFLLint(options).edges
    /\ entry = "constructor"
    /\ optionsArg = options
    /\ data \in Graphs
    /\ result = NoCall
    /\ prevEdges = edges
    /\ registry = NODE_DEFINITIONS

LintFlow == LintFlowCall(data)
LintFlowFn == \E o \in OptionsSamples : LintFlowFnCall(data, o)
LintNodeExecution == \E o \in OptionsSamples : LintNodeExecutionCall(data, o)

Next ==
    \/ Construct(OptionsSamples)
    \/ LintFlow
    \/ LintFlowFn
    \/ LintNodeExecution

Spec == Init /\ [][Next]_vars

-----------------------------------------------------------------------------
(* SpecSeq: one linter is handed one graph after another *)

\* an ai_model_node whose required input prompt has no value, so that the
\* outcome depends on the edges that reach it
PromptNode ==
    Node("B", "ai_model_node", Position(Num(0), Num(0)), "latest",
         Data(Arr(<<Input("model", ObjectV), Input("prompt", NullV)>>),
              Arr(<<Output("ai_response", Undefined)>>), Undefined))

SeqGraphs ==
    {NullData}
    \cup {FlowData(n, e) :
            n \in {UndefinedV, Arr(<<>>), Arr(<<PromptNode>>),
                   Arr(<<BareNode("A"), PromptNode>>)},
            e \in {UndefinedV, ObjectV, Arr(<<>>),
                   Arr(<<Edge("A", "out", "B", "prompt")>>),
                   Arr(<<Edge("A", "out", "B", "B__prompt")>>),
                   Arr(<<Edge("A", "out", "B", "model-handle")>>),
                   Arr(<<Edge("B", "ai_response", "A", "prompt")>>)}}

InitSeq ==
    /\ options \in OptionsSamples
    /\ edges = NewTFLLint(options).edges
    /\ entry = "constructor"
    /\ optionsArg = options
    /\ data \in SeqGraphs
    /\ result = NoCall
    /\ prevEdges = edges
    /\ registry = NODE_DEFINITIONS

LintFlowNext == \E d \in SeqGraphs : LintFlowCall(d)

NextSeq ==
    \/ Construct(OptionsSamples)
    \/ LintFlowNext

SpecSeq == InitSeq /\ [][NextSeq]_vars

-----------------------------------------------------------------------------
(* Vocabulary of the properties *)

\* a call has been made (the state is not the one a constructor leaves)
Called == entry # "constructor"

\* the linter of the last call runs in node mode
NodeMode == options.kind = "object" /\ options.mode = "node"

\* the data of the last call is an object whose nodes and edges are arrays
WellShaped == data.kind = "object" /\ IsArray(data.nodes) /\ IsArray(data.edges)

HasCode(iss, code) == \E i \in 1..Len(iss) : iss[i].code = code
CountCode(iss, code) == Cardinality({i \in 1..Len(iss) : iss[i].code = code})

\* the list holds exactly one issue, an error with the given code
OnlyIssue(outcome, code) ==
    /\ ~outcome.threw
    /\ Len(outcome.issues) = 1
    /\ outcome.issues[1].code = code
    /\ outcome.issues[1].severity = "error"

\* the outcome of a first call on a new linter with the given options
Fresh(o, d) == lintFlow(NewTFLLint(o), d).outcome

-----------------------------------------------------------------------------
(* C1: for every graph whose nodes and edges are arrays, whatever they     *)
(* contain (a node of a registry type without a data object included),     *)
(* lintFlow returns a list of diagnostics and raises no exception, in both *)
(* modes.                                                                  *)
C1_NeverRaises == (Called /\ WellShaped) => ~result.threw

(* C2: when the whole graph argument is null or undefined, lintFlow        *)
(* returns exactly one diagnostic, the error invalid-flow-data.            *)
C2_AbsentGraphOneIssue ==
    (Called /\ data.kind \in {"null", "undefined"})
        => OnlyIssue(result, "invalid-flow-data")

(* C3: for a graph object whose nodes field is absent or no array,         *)
(* lintFlow returns exactly one diagnostic, with code missing-nodes-array. *)
C3_MissingNodesArray ==
    (Called /\ data.kind = "object" /\ ~IsArray(data.nodes))
        => (/\ ~result.threw
            /\ Len(result.issues) = 1
            /\ result.issues[1].code = "missing-nodes-array")

(* C4: for a graph whose nodes is an array and whose edges is absent or no *)
(* array, lintFlow returns exactly one diagnostic, missing-edges-array,    *)
(* and examines no node, in flow mode and in node mode, whatever the nodes *)
(* contain.                                                                *)
C4_MissingEdgesArray ==
    (Called /\ data.kind = "object" /\ IsArray(data.nodes) /\ ~IsArray(data.edges))
        => result = Returned(<< FlowIssue("Flow data must have an edges array",
                                          "missing-edges-array") >>)

\* a node-mode run on a node that cannot be examined without a TypeError, with
\* edges that are truthy but no array
C4_Witness ==
    /\ Called /\ NodeMode
    /\ data.kind = "object" /\ data.edges.kind = "object"
    /\ IsArray(data.nodes) /\ Len(data.nodes.items) = 1
    /\ Fresh(options, FlowData(data.nodes, Arr(<<>>))).threw
    /\ HasCode(result.issues, "missing-edges-array")

(* C5: for the graph with no node and no edge lintFlow returns the empty   *)
(* list, in both modes.                                                    *)
C5_EmptyGraph ==
    (Called /\ data = FlowData(Arr(<<>>), Arr(<<>>))) => result = Returned(<<>>)

C5_Witness ==
    /\ entry = "TFLLint.lintFlow" /\ ~NodeMode
    /\ data = FlowData(Arr(<<>>), Arr(<<>>))
    /\ result = Returned(<<>>)

FlowOnlyCodes ==
    {"isolated-node", "circular-dependency", "node-position-overlap",
     "missing-edge-source", "missing-edge-sourcehandle", "missing-edge-target",
     "missing-edge-targethandle", "invalid-edge-source-node",
     "invalid-edge-target-node", "invalid-edge-source-handle",
     "invalid-edge-target-handle"}

C7_NodeModeCodes ==
    (Called /\ NodeMode)
        => \A i \in 1..Len(result.issues) : result.issues[i].code \notin FlowOnlyCodes

\* a node-mode run that returns issues for a graph on which a flow-mode run
\* reports an overlap, an isolated node, a cycle and edge errors
C7_Witness ==
    /\ Called /\ NodeMode /\ ~result.threw /\ Len(result.issues) > 0
    /\ \A c \in {"node-position-overlap", "isolated-node", "circular-dependency",
                 "missing-edge-source", "invalid-edge-target-node"} :
          HasCode(Fresh(NoOptions, data).issues, c)

(* C8: lintNodeExecution(graph, options) runs in node mode whatever the    *)
(* options, those that carry mode "flow" included: its result is the       *)
(* result of lintFlow(graph, {mode: "node"}).                              *)
C8_NodeExecutionIsNodeMode ==
    entry = "lintNodeExecution"
        => result = lintFlowFn(data, Options(Undefined, "node")).outcome

\* options with mode "flow", on a graph that a flow-mode run treats otherwise
C8_Witness ==
    /\ entry = "lintNodeExecution"
    /\ optionsArg.kind = "object" /\ optionsArg.mode = "flow"
    /\ ~result.threw
    /\ lintFlowFn(data, optionsArg).outcome # result

(* C9: in flow mode lintFlow returns at least one circular-dependency      *)
(* error if and only if the relation source -> target of the edges has a   *)
(* cycle reachable from the id of some node; for the chain A -> B -> C ->  *)
(* A with the nodes in the order A, B, C the message lists A, B, C, A.     *)
Successors(edgeList, S) ==
    {edgeList[i].target : i \in {j \in 1..Len(edgeList) : edgeList[j].source \in S}}

RECURSIVE ReachableFrom(_, _)
ReachableFrom(edgeList, S) ==
    LET T == S \cup Successors(edgeList, S)
    IN  IF T = S THEN S ELSE ReachableFrom(edgeList, T)

CycleReachable(nodes, edgeList) ==
    \E v \in ReachableFrom(edgeList, {nodes[i].id : i \in 1..Len(nodes)}) :
        v \in ReachableFrom(edgeList, Successors(edgeList, {v}))

IsChainABC(d) ==
    /\ FieldIds(d.nodes.items, 1) = <<"A", "B", "C">>
    /\ Len(d.edges.items) = 3
    /\ {<<d.edges.items[i].source, d.edges.items[i].target>> : i \in 1..3}
          = {<<"A", "B">>, <<"B", "C">>, <<"C", "A">>}

CycleClaim(d, outcome) ==
    /\ HasCode(outcome.issues, "circular-dependency")
          <=> CycleReachable(d.nodes.items, d.edges.items)
    /\ IsChainABC(d)
          => \E i \in 1..Len(outcome.issues) :
                outcome.issues[i].message
                   = "Circular dependency detected: A -> B -> C -> A"

C9_CycleIff == (Called /\ ~NodeMode /\ WellShaped) => CycleClaim(data, result)

\* the same for the runs that return
C9_CycleIffWhenReturned ==
    (Called /\ ~NodeMode /\ WellShaped /\ ~result.threw) => CycleClaim(data, result)

(* C10: the number of duplicate-node-id errors is the sum, over the        *)
(* non-empty id values, of the number of nodes with that id minus one,     *)
(* each reported at a later occurrence of the id.                          *)
NodesWithId(nodes, id) == {i \in 1..Len(nodes) : nodes[i].id = id}

DuplicateClaim(d, outcome) ==
    LET nodes == d.nodes.items
        dups == {i \in 1..Len(outcome.issues) :
                    outcome.issues[i].code = "duplicate-node-id"}
    IN  /\ \A i \in dups : Truthy(outcome.issues[i].elementId)
        /\ \A k \in 1..Len(nodes) :
              Truthy(nodes[k].id)
                 => Cardinality({i \in dups : outcome.issues[i].elementId = nodes[k].id})
                       = Cardinality(NodesWithId(nodes, nodes[k].id)) - 1

C10_DuplicateCount == (Called /\ WellShaped) => DuplicateClaim(data, result)

\* the same for the runs that return
C10_DuplicateCountWhenReturned ==
    (Called /\ WellShaped /\ ~result.threw) => DuplicateClaim(data, result)

(* C11: in flow mode, for every edge whose source resolves to a node and   *)
(* whose sourceHandle is non-empty, invalid-edge-source-handle is emitted  *)
(* if and only if the sourceHandle, one trailing "-handle" removed, is the *)
(* id of no output field of the source node; no such error is emitted for *)
(* an edge whose source does not resolve.                                  *)
OutputIdsOf(node) ==
    IF node.data.kind = "object" /\ IsArray(node.data.outputs)
    THEN {node.data.outputs.items[k].id : k \in 1..Len(node.data.outputs.items)}
    ELSE {}

\* the edge's source resolves, its sourceHandle is non-empty and names no output
BadSourceHandle(nodes, edge) ==
    /\ Truthy(edge.source) /\ Truthy(edge.sourceHandle)
    /\ MapHas(nodes, edge.source)
    /\ StripHandle(edge.sourceHandle)
          \notin OutputIdsOf(MapGetNode(nodes, edge.source, Len(nodes)))

SourceHandleMessage(edge) ==
    "Edge references non-existent output handle " \o edge.sourceHandle
       \o " on node " \o edge.source

SourceHandleClaim(d, outcome) ==
    LET nodes == d.nodes.items
        edgeList == d.edges.items
        bad == {i \in 1..Len(edgeList) : BadSourceHandle(nodes, edgeList[i])}
    IN  /\ CountCode(outcome.issues, "invalid-edge-source-handle") = Cardinality(bad)
        /\ \A i \in bad :
              \E k \in 1..Len(outcome.issues) :
                 /\ outcome.issues[k].code = "invalid-edge-source-handle"
                 /\ outcome.issues[k].message = SourceHandleMessage(edgeList[i])

C11_SourceHandle ==
    (Called /\ ~NodeMode /\ WellShaped) => SourceHandleClaim(data, result)

\* the same for the runs that return
C11_SourceHandleWhenReturned ==
    (Called /\ ~NodeMode /\ WellShaped /\ ~result.threw)
        => SourceHandleClaim(data, result)

(* C12: in flow mode, for every edge whose target resolves to a node and   *)
(* whose targetHandle is non-empty, invalid-edge-target-handle is emitted  *)
(* if and only if the targetHandle, one trailing "-handle" removed, is not *)
(* in the target's valid input handle set: the ids of the target's input   *)
(* fields, extended, only for an ai_model_node, with every trimmed         *)
(* non-empty name (a string, or the name of an object) in the array value  *)
(* of its parameters input.                                                *)
InputsOf(node) ==
    IF node.data.kind = "object" /\ IsArray(node.data.inputs)
    THEN node.data.inputs.items ELSE <<>>

ParameterNames(node) ==
    LET inputs == InputsOf(node)
        at == {k \in 1..Len(inputs) : inputs[k].id = "parameters"}
    IN  IF at = {} THEN {}
        ELSE LET value == inputs[CHOOSE k \in at : \A j \in at : k <= j].value
             IN  IF ~IsArray(value) THEN {}
                 ELSE {Trim(value.items[j].name) :
                          j \in {j \in 1..Len(value.items) :
                                    /\ value.items[j].kind \in {"string", "object"}
                                    /\ Truthy(value.items[j].name)}} \ {""}

ValidInputHandleSet(node) ==
    {InputsOf(node)[k].id : k \in 1..Len(InputsOf(node))}
    \cup (IF node.type = "ai_model_node" THEN ParameterNames(node) ELSE {})

BadTargetHandle(nodes, edge) ==
    /\ Truthy(edge.target) /\ Truthy(edge.targetHandle)
    /\ MapHas(nodes, edge.target)
    /\ StripHandle(edge.targetHandle)
          \notin ValidInputHandleSet(MapGetNode(nodes, edge.target, Len(nodes)))

TargetHandleMessage(edge) ==
    "Edge references non-existent input handle " \o edge.targetHandle
       \o " on node " \o edge.target

TargetHandleClaim(d, outcome) ==
    LET nodes == d.nodes.items
        edgeList == d.edges.items
        bad == {i \in 1..Len(edgeList) : BadTargetHandle(nodes, edgeList[i])}
    IN  /\ CountCode(outcome.issues, "invalid-edge-target-handle") = Cardinality(bad)
        /\ \A i \in bad :
              \E k \in 1..Len(outcome.issues) :
                 /\ outcome.issues[k].code = "invalid-edge-target-handle"
                 /\ outcome.issues[k].message = TargetHandleMessage(edgeList[i])

C12_TargetHandle ==
    (Called /\ ~NodeMode /\ WellShaped) => TargetHandleClaim(data, result)

\* the same for the runs that return
C12_TargetHandleWhenReturned ==
    (Called /\ ~NodeMode /\ WellShaped /\ ~result.threw)
        => TargetHandleClaim(data, result)

(* C13: for a node of known type and a required input field present in    *)
(* the node's inputs with a null or undefined value: when some edge of the *)
(* graph has the node id as target and a targetHandle that, "-handle"      *)
(* stripped, equals the field id or has it as second "__"-separated        *)
(* segment, no required-input-empty error is emitted for the field; when   *)
(* no edge targets the field, exactly one is emitted.  In both modes.      *)
HandleNamesField(handle, fieldId) ==
    \/ handle = fieldId
    \/ SplitsInTwo(handle, "__") /\ SecondPart(handle, "__") = fieldId

\* some edge targets the field, the "-handle" suffix stripped
FieldTargeted(edgeList, nodeId, fieldId) ==
    \E i \in 1..Len(edgeList) :
        /\ edgeList[i].target = nodeId
        /\ Truthy(edgeList[i].targetHandle)
        /\ HandleNamesField(StripHandle(edgeList[i].targetHandle), fieldId)

\* some edge targets the field, the targetHandle taken as it is written
FieldTargetedUnstripped(edgeList, nodeId, fieldId) ==
    \E i \in 1..Len(edgeList) :
        /\ edgeList[i].target = nodeId
        /\ Truthy(edgeList[i].targetHandle)
        /\ HandleNamesField(edgeList[i].targetHandle, fieldId)

\* the node has an id and a known type, the field is required by the type and
\* present among the inputs, every time with a null or undefined value
RequiredFieldEmpty(node, fieldId) ==
    /\ Truthy(node.id) /\ KnownType(node.type)
    /\ Includes(NODE_DEFINITIONS[node.type].requiredInputs, fieldId)
    /\ \E k \in 1..Len(InputsOf(node)) : InputsOf(node)[k].id = fieldId
    /\ \A k \in 1..Len(InputsOf(node)) :
          InputsOf(node)[k].id = fieldId
             => InputsOf(node)[k].value.kind \in {"undefined", "null"}

EmptyIssues(outcome, nodeId, fieldId) ==
    {k \in 1..Len(outcome.issues) :
        /\ outcome.issues[k].code = "required-input-empty"
        /\ outcome.issues[k].elementId = nodeId
        /\ outcome.issues[k].fieldId = fieldId}

\* stripped: whether the "-handle" suffix is stripped before the comparison
RequiredInputClaim(d, outcome, stripped) ==
    LET nodes == d.nodes.items
    IN  \A n \in 1..Len(nodes) :
          \A f \in {"prompt", "model", "accounts"} :
             RequiredFieldEmpty(nodes[n], f)
                => Cardinality(EmptyIssues(outcome, nodes[n].id, f))
                      = Cardinality({m \in 1..Len(nodes) :
                                        /\ nodes[m].id = nodes[n].id
                                        /\ RequiredFieldEmpty(nodes[m], f)
                                        /\ ~IF stripped
                                            THEN FieldTargeted(d.edges.items, nodes[m].id, f)
                                            ELSE FieldTargetedUnstripped(d.edges.items,
                                                                         nodes[m].id, f)})

C13_RequiredInputConnected ==
    (Called /\ WellShaped) => RequiredInputClaim(data, result, TRUE)

\* for the runs that return, the same with the targetHandle taken as written
C13_RequiredInputUnstrippedWhenReturned ==
    (Called /\ WellShaped /\ ~result.threw)
        => RequiredInputClaim(data, result, FALSE)

(* C14: for a graph of exactly one node that has an id and a type outside  *)
(* the registry, and no edge, the set of codes returned in flow mode is    *)
(* exactly {invalid-node-type} plus missing-node-position when the         *)
(* position is absent: no input/output contract code, no edge-level or     *)
(* graph-level code, and no other code.                                    *)
OneUnknownTypeNode ==
    /\ Called /\ ~NodeMode /\ WellShaped
    /\ Len(data.nodes.items) = 1 /\ Len(data.edges.items) = 0
    /\ Truthy(data.nodes.items[1].id)
    /\ Truthy(data.nodes.items[1].type)
    /\ data.nodes.items[1].type \notin NodeTypes

Codes(outcome) == {outcome.issues[k].code : k \in 1..Len(outcome.issues)}

PositionAbsent(node) == node.position.kind # "object"
VersionAbsent(node) == Falsy(node.version) /\ Falsy(node.data.version)

TwoOverlappingNodes ==
    /\ Called /\ ~NodeMode /\ WellShaped
    /\ Len(data.nodes.items) = 2 /\ Len(data.edges.items) = 0
    /\ Truthy(data.nodes.items[1].id) /\ Truthy(data.nodes.items[2].id)
    /\ data.nodes.items[1].id # data.nodes.items[2].id
    /\ data.nodes.items[1].position = Position(Num(0), Num(0))
    /\ data.nodes.items[2].position = Position(Num(10), Num(10))

IssuesOf(outcome, code, nodeId) ==
    {k \in 1..Len(outcome.issues) :
        /\ outcome.issues[k].code = code
        /\ outcome.issues[k].severity = "warning"
        /\ outcome.issues[k].elementId = nodeId}

OneIsolatedEach(d, outcome) ==
    /\ CountCode(outcome.issues, "isolated-node") = 2
    /\ \A n \in 1..2 :
          Cardinality(IssuesOf(outcome, "isolated-node", d.nodes.items[n].id)) = 1

C15_OverlapScenario ==
    TwoOverlappingNodes
        => /\ CountCode(result.issues, "node-position-overlap") = 1
           /\ OneIsolatedEach(data, result)

\* for the runs that return: one overlap warning for each node of the pair
C15_OverlapTwiceWhenReturned ==
    (TwoOverlappingNodes /\ ~result.threw)
        => /\ CountCode(result.issues, "node-position-overlap") = 2
           /\ \A n \in 1..2 :
                 Cardinality(IssuesOf(result, "node-position-overlap",
                                      data.nodes.items[n].id)) = 1
           /\ OneIsolatedEach(data, result)

(* C16: in flow mode a node yields an isolated-node warning if and only if *)
(* the graph has more than one node and the node's id is neither the       *)
(* source nor the target of any edge; each such node yields exactly one,   *)
(* and a single-node graph never yields isolated-node.                     *)
EdgeEnds(d) ==
    {d.edges.items[i].source : i \in 1..Len(d.edges.items)}
    \cup {d.edges.items[i].target : i \in 1..Len(d.edges.items)}

IsolatedNodes(d) ==
    {n \in 1..Len(d.nodes.items) :
        Len(d.nodes.items) > 1 /\ d.nodes.items[n].id \notin EdgeEnds(d)}

IsolatedClaim(d, outcome) ==
    /\ CountCode(outcome.issues, "isolated-node") = Cardinality(IsolatedNodes(d))
    /\ \A n \in 1..Len(d.nodes.items) :
          Cardinality(IssuesOf(outcome, "isolated-node", d.nodes.items[n].id))
             = Cardinality({m \in IsolatedNodes(d) :
                               d.nodes.items[m].id = d.nodes.items[n].id})

C16_IsolatedIff == (Called /\ ~NodeMode /\ WellShaped) => IsolatedClaim(data, result)

\* the same for the runs that return
C16_IsolatedIffWhenReturned ==
    (Called /\ ~NodeMode /\ WellShaped /\ ~result.threw) => IsolatedClaim(data, result)

(* C17: every diagnostic lintFlow returns, for every graph and mode,       *)
(* carries a code of the closed enumeration, and its severity is fixed by  *)
(* its code: warning exactly for unknown-input, unknown-output,            *)
(* missing-node-version, prerelease-version, node-position-overlap and     *)
(* isolated-node, error for every other code.                              *)
WarningCodes ==
    {"unknown-input", "unknown-output", "missing-node-version", "prerelease-version",
     "node-position-overlap", "isolated-node"}

DiagnosticCodes ==
    WarningCodes \cup FlowOnlyCodes
    \cup {"invalid-flow-data", "missing-nodes-array", "missing-edges-array",
          "missing-node-id", "duplicate-node-id", "missing-node-type",
          "invalid-node-type", "missing-node-position", "invalid-node-position",
          "missing-required-input", "required-input-empty", "missing-input-id",
          "missing-output-id", "invalid-output-isdeleted", "invalid-version-syntax"}

C17_SeverityByCode ==
    \A k \in 1..Len(result.issues) :
        /\ result.issues[k].code \in DiagnosticCodes
        /\ result.issues[k].severity \in {"error", "warning"}
        /\ result.issues[k].severity = "warning"
              <=> result.issues[k].code \in WarningCodes

\* one list with warnings and errors of the node, edge and graph checks
C17_Witness ==
    /\ Called /\ ~result.threw
    /\ {"unknown-input", "unknown-output", "prerelease-version",
        "node-position-overlap", "isolated-node", "missing-input-id",
        "invalid-output-isdeleted", "required-input-empty"} \subseteq Codes(result)

PerNodeCodes ==
    {"duplicate-node-id", "missing-node-type", "invalid-node-type",
     "missing-node-position", "invalid-node-position", "missing-required-input",
     "required-input-empty", "missing-input-id", "unknown-input", "missing-output-id",
     "invalid-output-isdeleted", "unknown-output", "missing-node-version",
     "invalid-version-syntax", "prerelease-version", "node-position-overlap"}

NodesWithoutId(d) == {n \in 1..Len(d.nodes.items) : Falsy(d.nodes.items[n].id)}

\* the graph without its nodes that have no id
WithoutIdless(d) ==
    LET HasId(node) == Truthy(node.id)
    IN  FlowData(Arr(SelectSeq(d.nodes.items, HasId)), d.edges)

MissingIdClaim(o, d, outcome) ==
    /\ CountCode(outcome.issues, "missing-node-id") = Cardinality(NodesWithoutId(d))
    /\ \A n \in NodesWithoutId(d) :
          Cardinality({k \in 1..Len(outcome.issues) :
                          /\ outcome.issues[k].code = "missing-node-id"
                          /\ outcome.issues[k].severity = "error"
                          /\ outcome.issues[k].message
                                = "Node at index " \o NumStr(n - 1)
                                     \o " is missing required field: id"}) = 1
    /\ \A k \in 1..Len(outcome.issues) :
          outcome.issues[k].code \in PerNodeCodes => Truthy(outcome.issues[k].elementId)
    \* in node mode only the per-node checks run: the other issues are those of
    \* the graph without the nodes that have no id
    /\ (o.kind = "object" /\ o.mode = "node")
          => LET Other(issue) == issue.code # "missing-node-id"
             IN  SelectSeq(outcome.issues, Other) = Fresh(o, WithoutIdless(d)).issues

C19_MissingNodeId ==
    (Called /\ WellShaped /\ NodesWithoutId(data) # {})
        => MissingIdClaim(options, data, result)

\* the same for the runs that return
C19_MissingNodeIdWhenReturned ==
    (Called /\ WellShaped /\ NodesWithoutId(data) # {} /\ ~result.threw)
        => MissingIdClaim(options, data, result)

(* C20: in flow mode each edge is checked independently of the other edges *)
(* and its four missing-field checks are independent of each other: an     *)
(* edge emits missing-edge-source, missing-edge-sourcehandle,              *)
(* missing-edge-target, missing-edge-targethandle once for each of its     *)
(* fields that is absent or empty, and it emits invalid-edge-source-node   *)
(* (resp. invalid-edge-target-node) if and only if its source (resp.       *)
(* target) is non-empty and is the id of no node.                          *)
MissingFieldIssues(outcome, i, field, code) ==
    {k \in 1..Len(outcome.issues) :
        /\ outcome.issues[k].code = code
        /\ outcome.issues[k].message
              = "Edge at index " \o NumStr(i - 1) \o " is missing required field: "
                   \o field}

MessageIssues(outcome, code, message) ==
    {k \in 1..Len(outcome.issues) :
        outcome.issues[k].code = code /\ outcome.issues[k].message = message}

OneIfFalsy(x) == IF Falsy(x) THEN 1 ELSE 0

EdgeFieldClaim(d, outcome) ==
    LET nodes == d.nodes.items
        edgeList == d.edges.items
        E == 1..Len(edgeList)
        NoSuchNode(id) == Truthy(id) /\ \A n \in 1..Len(nodes) : nodes[n].id # id
    IN  /\ \A i \in E :
              /\ Cardinality(MissingFieldIssues(outcome, i, "source",
                                                "missing-edge-source"))
                    = OneIfFalsy(edgeList[i].source)
              /\ Cardinality(MissingFieldIssues(outcome, i, "sourceHandle",
                                                "missing-edge-sourcehandle"))
                    = OneIfFalsy(edgeList[i].sourceHandle)
              /\ Cardinality(MissingFieldIssues(outcome, i, "target",
                                                "missing-edge-target"))
                    = OneIfFalsy(edgeList[i].target)
              /\ Cardinality(MissingFieldIssues(outcome, i, "targetHandle",
                                                "missing-edge-targethandle"))
                    = OneIfFalsy(edgeList[i].targetHandle)
              /\ NoSuchNode(edgeList[i].source)
                    => Cardinality(MessageIssues(outcome, "invalid-edge-source-node",
                          "Edge references non-existent source node: "
                             \o edgeList[i].source))
                          = Cardinality({j \in E : edgeList[j].source = edgeList[i].source})
              /\ NoSuchNode(edgeList[i].target)
                    => Cardinality(MessageIssues(outcome, "invalid-edge-target-node",
                          "Edge references non-existent target node: "
                             \o edgeList[i].target))
                          = Cardinality({j \in E : edgeList[j].target = edgeList[i].target})
        /\ CountCode(outcome.issues, "missing-edge-source")
              = Cardinality({i \in E : Falsy(edgeList[i].source)})
        /\ CountCode(outcome.issues, "missing-edge-sourcehandle")
              = Cardinality({i \in E : Falsy(edgeList[i].sourceHandle)})
        /\ CountCode(outcome.issues, "missing-edge-target")
              = Cardinality({i \in E : Falsy(edgeList[i].target)})
        /\ CountCode(outcome.issues, "missing-edge-targethandle")
              = Cardinality({i \in E : Falsy(edgeList[i].targetHandle)})
        /\ CountCode(outcome.issues, "invalid-edge-source-node")
              = Cardinality({i \in E : NoSuchNode(edgeList[i].source)})
        /\ CountCode(outcome.issues, "invalid-edge-target-node")
              = Cardinality({i \in E : NoSuchNode(edgeList[i].target)})

C20_EdgeFields == (Called /\ ~NodeMode /\ WellShaped) => EdgeFieldClaim(data, result)

\* the same for the runs that return
C20_EdgeFieldsWhenReturned ==
    (Called /\ ~NodeMode /\ WellShaped /\ ~result.threw) => EdgeFieldClaim(data, result)

(* C21: for a node of known type and each field id in its type's           *)
(* requiredInputs: when no input of the node has that id, exactly one      *)
(* missing-required-input error is emitted for the field and no            *)
(* required-input-empty, even when an edge targets the field; when the     *)
(* input is present with a value other than null and undefined (the empty  *)
(* string, the empty array and the empty object included), neither code is *)
(* emitted for the field.                                                  *)
RequiredBy(node, fieldId) ==
    /\ Truthy(node.id) /\ KnownType(node.type)
    /\ Includes(NODE_DEFINITIONS[node.type].requiredInputs, fieldId)

\* no input of the node has the id
FieldMissing(node, fieldId) ==
    /\ RequiredBy(node, fieldId)
    /\ \A k \in 1..Len(InputsOf(node)) : InputsOf(node)[k].id # fieldId

\* the input is present, every time with a value other than null and undefined
FieldHasValue(node, fieldId) ==
    /\ RequiredBy(node, fieldId)
    /\ \E k \in 1..Len(InputsOf(node)) : InputsOf(node)[k].id = fieldId
    /\ \A k \in 1..Len(InputsOf(node)) :
          InputsOf(node)[k].id = fieldId
             => InputsOf(node)[k].value.kind \notin {"undefined", "null"}

FieldIssues(outcome, code, nodeId, fieldId) ==
    {k \in 1..Len(outcome.issues) :
        /\ outcome.issues[k].code = code
        /\ outcome.issues[k].severity = "error"
        /\ outcome.issues[k].elementId = nodeId
        /\ outcome.issues[k].fieldId = fieldId
        /\ outcome.issues[k].fieldType = "input"}

RequiredFields ==
    UNION {{NODE_DEFINITIONS[t].requiredInputs[k] :
               k \in 1..Len(NODE_DEFINITIONS[t].requiredInputs)} : t \in NodeTypes}

\* a node id may repeat: the issues of an id and a field are counted over the
\* nodes that carry the id
RequiredPresenceClaim(d, outcome) ==
    LET nodes == d.nodes.items
        Same(n) == {m \in 1..Len(nodes) : nodes[m].id = nodes[n].id}
    IN  \A n \in 1..Len(nodes) :
          \A f \in RequiredFields :
             /\ FieldMissing(nodes[n], f)
                   => Cardinality(FieldIssues(outcome, "missing-required-input",
                                              nodes[n].id, f))
                         = Cardinality({m \in Same(n) : FieldMissing(nodes[m], f)})
             /\ (\A m \in Same(n) :
                    RequiredBy(nodes[m], f)
                       => FieldMissing(nodes[m], f) \/ FieldHasValue(nodes[m], f))
                   => FieldIssues(outcome, "required-input-empty", nodes[n].id, f) = {}
             /\ (\A m \in Same(n) : RequiredBy(nodes[m], f) => FieldHasValue(nodes[m], f))
                   => FieldIssues(outcome, "missing-required-input", nodes[n].id, f) = {}

C21_RequiredPresence ==
    (Called /\ WellShaped) => RequiredPresenceClaim(data, result)

\* the same for the runs that return
C21_RequiredPresenceWhenReturned ==
    (Called /\ WellShaped /\ ~result.threw) => RequiredPresenceClaim(data, result)

(* C22: for a node of known type, an input field with a non-empty id       *)
(* yields an unknown-input warning if and only if its id is outside the    *)
(* valid input ids of the node: requiredInputs and optionalInputs of its   *)
(* type, extended, for an ai_model_node, with every distinct name found in *)
(* the value of its parameters input; so an ai_model_node input whose id   *)
(* is named in its own parameter list yields no unknown-input warning.     *)
DeclaredInputIds(node) ==
    {NODE_DEFINITIONS[node.type].requiredInputs[k] :
        k \in 1..Len(NODE_DEFINITIONS[node.type].requiredInputs)}
    \cup {NODE_DEFINITIONS[node.type].optionalInputs[k] :
             k \in 1..Len(NODE_DEFINITIONS[node.type].optionalInputs)}

\* extended: whether the parameter names of an ai_model_node are valid ids
ValidInputIds(node, extended) ==
    DeclaredInputIds(node)
    \cup (IF extended /\ node.type = "ai_model_node" THEN ParameterNames(node) ELSE {})

\* the positions of the inputs of the node with a non-empty id that is not valid
UnknownInputs(node, extended) ==
    IF Truthy(node.id) /\ KnownType(node.type)
    THEN {k \in 1..Len(InputsOf(node)) :
             /\ Truthy(InputsOf(node)[k].id)
             /\ InputsOf(node)[k].id \notin ValidInputIds(node, extended)}
    ELSE {}

UnknownInputIssues(outcome, nodeId, inputId) ==
    {k \in 1..Len(outcome.issues) :
        /\ outcome.issues[k].code = "unknown-input"
        /\ outcome.issues[k].severity = "warning"
        /\ outcome.issues[k].elementId = nodeId
        /\ outcome.issues[k].message
              = "Node " \o nodeId \o " has unknown input: " \o inputId}

InputIdsIn(d) ==
    UNION {{InputsOf(d.nodes.items[n])[k].id : k \in 1..Len(InputsOf(d.nodes.items[n]))} :
              n \in 1..Len(d.nodes.items)}

InputPositions(d) ==
    UNION {1..Len(InputsOf(d.nodes.items[n])) : n \in 1..Len(d.nodes.items)}

UnknownInputClaim(d, outcome, extended) ==
    LET nodes == d.nodes.items
    IN  /\ \A n \in 1..Len(nodes) :
              \A id \in {x \in InputIdsIn(d) : Truthy(x)} :
                 Truthy(nodes[n].id)
                    => Cardinality(UnknownInputIssues(outcome, nodes[n].id, id))
                          = Cardinality(
                               {<<m, k>> \in (1..Len(nodes)) \X InputPositions(d) :
                                   /\ nodes[m].id = nodes[n].id
                                   /\ k \in UnknownInputs(nodes[m], extended)
                                   /\ InputsOf(nodes[m])[k].id = id})
        /\ \A k \in 1..Len(outcome.issues) :
              outcome.issues[k].code = "unknown-input"
                 => \E n \in 1..Len(nodes), id \in InputIdsIn(d) :
                       k \in UnknownInputIssues(outcome, nodes[n].id, id)

C22_UnknownInput ==
    (Called /\ WellShaped) => UnknownInputClaim(data, result, TRUE)

\* for the runs that return, the same with the valid ids not extended
C22_UnknownInputUnextendedWhenReturned ==
    (Called /\ WellShaped /\ ~result.threw) => UnknownInputClaim(data, result, FALSE)

\* a run that returns an unknown-input warning for an input of an ai_model_node
\* that the parameter list of the node names
C22_ParameterNamedUnknown ==
    /\ Called /\ WellShaped /\ ~result.threw
    /\ \E n \in 1..Len(data.nodes.items) :
          LET node == data.nodes.items[n]
          IN  /\ Truthy(node.id) /\ node.type = "ai_model_node"
              /\ \E id \in ParameterNames(node) :
                    /\ \E k \in 1..Len(InputsOf(node)) : InputsOf(node)[k].id = id
                    /\ UnknownInputIssues(result, node.id, id) # {}

(* C23: for a node of known type and each field of its outputs: a missing  *)
(* id yields missing-output-id; invalid-output-isdeleted is emitted if and *)
(* only if isDeleted is present and not a boolean; unknown-output is       *)
(* emitted if and only if the id is non-empty and not among the outputs    *)
(* declared by the type.  The three checks are independent of each other.  *)
OutputsOf(node) ==
    IF node.data.kind = "object" /\ IsArray(node.data.outputs)
    THEN node.data.outputs.items ELSE <<>>

\* what the claim says of one output field, for each of the three codes
OutputFault(node, output, code) ==
    CASE code = "missing-output-id" -> Falsy(output.id)
      [] code = "invalid-output-isdeleted" ->
            output.isDeleted # Undefined /\ output.isDeleted \notin {TrueB, FalseB}
      [] code = "unknown-output" ->
            /\ Truthy(output.id)
            /\ \A k \in 1..Len(NODE_DEFINITIONS[node.type].outputs) :
                  NODE_DEFINITIONS[node.type].outputs[k] # output.id

OutputCodes == {"missing-output-id", "invalid-output-isdeleted", "unknown-output"}

\* the outputs, as (node, position), that the claim has reported with the code
FaultyOutputs(d, code) ==
    {p \in (1..Len(d.nodes.items))
             \X UNION {1..Len(OutputsOf(d.nodes.items[n])) : n \in 1..Len(d.nodes.items)} :
        LET node == d.nodes.items[p[1]]
        IN  /\ Truthy(node.id) /\ KnownType(node.type)
            /\ p[2] <= Len(OutputsOf(node))
            /\ OutputFault(node, OutputsOf(node)[p[2]], code)}

OutputClaim(d, outcome) ==
    \A code \in OutputCodes :
        /\ CountCode(outcome.issues, code) = Cardinality(FaultyOutputs(d, code))
        /\ \A n \in 1..Len(d.nodes.items) :
              Truthy(d.nodes.items[n].id)
                 => Cardinality({k \in 1..Len(outcome.issues) :
                                    /\ outcome.issues[k].code = code
                                    /\ outcome.issues[k].elementId = d.nodes.items[n].id})
                       = Cardinality({p \in FaultyOutputs(d, code) :
                                         d.nodes.items[p[1]].id = d.nodes.items[n].id})

C23_OutputChecks == (Called /\ WellShaped) => OutputClaim(data, result)

\* the same for the runs that return
C23_OutputChecksWhenReturned ==
    (Called /\ WellShaped /\ ~result.threw) => OutputClaim(data, result)

(* C24: the version check emits at most one diagnostic per node with an    *)
(* id: missing-node-version (warning) when the version is absent;          *)
(* otherwise invalid-version-syntax (error) when the version matches none  *)
(* of the accepted syntaxes; otherwise prerelease-version (warning)        *)
(* exactly when the version contains a hyphen and is not the bare token    *)
(* latest: 1.2.3-beta.1 and latest-beta both yield the warning, latest and *)
(* 1.2.3 yield nothing.                                                    *)
VersionCodes == {"missing-node-version", "invalid-version-syntax", "prerelease-version"}

\* the version the check reads: the node's own, else the one of its data
VersionOf(node) ==
    IF Truthy(node.version) THEN node.version
    ELSE IF node.data.kind = "object" THEN node.data.version ELSE Undefined

\* bare: whether only the bare token latest is exempt from the prerelease
\* warning, or every version that starts with latest
VersionCodeDue(node, bare) ==
    LET version == VersionOf(node)
    IN  IF Falsy(version) THEN "missing-node-version"
        ELSE IF ~validateVersionSyntax(version) THEN "invalid-version-syntax"
        ELSE IF /\ \E i \in 1..Len(version) : SubSeq(version, i, i) = "-"
                /\ IF bare THEN version # "latest"
                   ELSE SubSeq(version, 1, 6) # "latest"
        THEN "prerelease-version"
        ELSE "none"

VersionIssues(outcome, code, nodeId) ==
    {k \in 1..Len(outcome.issues) :
        /\ outcome.issues[k].code = code
        /\ outcome.issues[k].severity
              = (IF code = "invalid-version-syntax" THEN "error" ELSE "warning")
        /\ outcome.issues[k].elementId = nodeId}

VersionClaim(d, outcome, bare) ==
    LET nodes == d.nodes.items
    IN  /\ \A n \in 1..Len(nodes), code \in VersionCodes :
              Truthy(nodes[n].id)
                 => Cardinality(VersionIssues(outcome, code, nodes[n].id))
                       = Cardinality({m \in 1..Len(nodes) :
                                         /\ nodes[m].id = nodes[n].id
                                         /\ VersionCodeDue(nodes[m], bare) = code})
        /\ \A k \in 1..Len(outcome.issues) :
              outcome.issues[k].code \in VersionCodes
                 => \E n \in 1..Len(nodes) :
                       /\ Truthy(nodes[n].id)
                       /\ outcome.issues[k].elementId = nodes[n].id

C24_VersionCheck == (Called /\ WellShaped) => VersionClaim(data, result, TRUE)

\* for the runs that return, the same with every version that starts with
\* latest exempt from the prerelease warning
C24_VersionCheckLatestPrefixWhenReturned ==
    (Called /\ WellShaped /\ ~result.threw) => VersionClaim(data, result, FALSE)

\* a run that returns no prerelease-version warning for the version latest-beta
C24_LatestBetaSilent ==
    /\ Called /\ WellShaped /\ ~result.threw
    /\ Len(data.nodes.items) = 1
    /\ Truthy(data.nodes.items[1].id)
    /\ VersionOf(data.nodes.items[1]) = "latest-beta"
    /\ Codes(result) \cap VersionCodes = {}

(* C25: every circular-dependency diagnostic, for every graph (those where *)
(* an earlier DFS root already reported a cycle included), names a real    *)
(* cycle: the path in its message starts and ends with the same node id,   *)
(* that id being the first occurrence of the repeated node on the DFS path *)
(* (the path repeats no other node), and every consecutive pair of the     *)
(* path is an edge source -> target of the graph.                          *)
IsEdgePair(d, a, b) ==
    \E i \in 1..Len(d.edges.items) :
        d.edges.items[i].source = a /\ d.edges.items[i].target = b

\* the closed walks of the graph that repeat no node but the first as the last
RealCycles(d) ==
    {p \in SeqsUpTo(EdgeEnds(d), Len(d.edges.items) + 1) :
        /\ Len(p) >= 2
        /\ p[1] = p[Len(p)]
        /\ \A i \in 1..(Len(p) - 1) : IsEdgePair(d, p[i], p[i + 1])
        /\ \A i, j \in 1..(Len(p) - 1) : p[i] = p[j] => i = j}

NamesRealCycle(d, issue) ==
    \E p \in RealCycles(d) :
        issue.message = "Circular dependency detected: " \o Join(p, " -> ")

CycleIssues(outcome) ==
    {k \in 1..Len(outcome.issues) : outcome.issues[k].code = "circular-dependency"}

C25_RealCycle ==
    (Called /\ WellShaped)
        => \A k \in CycleIssues(result) : NamesRealCycle(data, result.issues[k])

\* the first circular-dependency diagnostic of a list names a real cycle
C25_FirstCycleReal ==
    (Called /\ WellShaped /\ CycleIssues(result) # {})
        => NamesRealCycle(data,
              result.issues[CHOOSE k \in CycleIssues(result) :
                               \A j \in CycleIssues(result) : k <= j])

\* after the cycle A -> B -> A found from the root A, the root C with the edge
\* C -> A is reported as the cycle C -> A
C25_StaleStackReport ==
    /\ Called /\ WellShaped /\ ~result.threw
    /\ FieldIds(data.nodes.items, 1) = <<"A", "B", "C">>
    /\ \E k \in CycleIssues(result) :
          result.issues[k].message = "Circular dependency detected: C -> A"
    /\ ~IsEdgePair(data, "A", "C")

(* C26: cycle detection emits at most one circular-dependency diagnostic   *)
(* per root DFS started by the outer loop over the nodes, so a graph made  *)
(* of k mutually unconnected components that each contain a cycle yields   *)
(* exactly k circular-dependency diagnostics, and the total never exceeds  *)
(* the number of nodes.                                                    *)
\* the edges taken in both directions
BothWays(d) ==
    [i \in 1..Len(d.edges.items) |->
        [source |-> d.edges.items[i].source, target |-> d.edges.items[i].target]]
    \o [i \in 1..Len(d.edges.items) |->
           [source |-> d.edges.items[i].target, target |-> d.edges.items[i].source]]

NodeIdsOf(d) == {d.nodes.items[n].id : n \in 1..Len(d.nodes.items)}

\* the mutually unconnected components of the graph, as sets of ids
Components(d) == {ReachableFrom(BothWays(d), {v}) : v \in NodeIdsOf(d) \cup EdgeEnds(d)}

HasCycle(d, comp) == \E p \in RealCycles(d) : p[1] \in comp

\* the number of diagnostics that the root DFS of the node at n adds: the outer
\* loop over the first n nodes against the loop over the first n - 1
PerRoot(d, n) ==
    Len(detectCycles(SubSeq(d.nodes.items, 1, n), d.edges.items))
       - Len(detectCycles(SubSeq(d.nodes.items, 1, n - 1), d.edges.items))

AtMostOnePerRoot(d, outcome) ==
    /\ \A n \in 1..Len(d.nodes.items) : PerRoot(d, n) \in {0, 1}
    /\ Cardinality(CycleIssues(outcome)) <= Len(d.nodes.items)

\* for a graph whose edges join nodes of the graph
OnePerComponent(d, outcome) ==
    (/\ EdgeEnds(d) \subseteq NodeIdsOf(d)
     /\ \A comp \in Components(d) : HasCycle(d, comp))
        => Cardinality(CycleIssues(outcome)) = Cardinality(Components(d))

C26_OnePerRoot ==
    (Called /\ ~NodeMode /\ WellShaped)
        => /\ CycleIssues(result)
                 = {k \in 1..Len(result.issues) :
                       k > Len(result.issues)
                              - Len(detectCycles(data.nodes.items, data.edges.items))}
           /\ AtMostOnePerRoot(data, result)
           /\ OnePerComponent(data, result)

\* the part on the roots and on the total alone, for the runs that return
C26_AtMostOnePerRootWhenReturned ==
    (Called /\ ~NodeMode /\ WellShaped /\ ~result.threw)
        => /\ CycleIssues(result)
                 = {k \in 1..Len(result.issues) :
                       k > Len(result.issues)
                              - Len(detectCycles(data.nodes.items, data.edges.items))}
           /\ AtMostOnePerRoot(data, result)

\* a run that returns two diagnostics for one component with one cycle
C26_TwoForOneComponent ==
    /\ Called /\ ~NodeMode /\ WellShaped /\ ~result.threw
    /\ Cardinality(Components(data)) = 1
    /\ Cardinality(RealCycles(data)) = 2     \* A -> B -> A and B -> A -> B
    /\ Cardinality(CycleIssues(result)) = 2

(* C27: in a full flow-mode run the returned list is the concatenation of  *)
(* the pipeline stages in order: every per-node diagnostic (in node order, *)
(* and within a node in the order id, duplicate, type, position,           *)
(* inputs/outputs, version, overlap) comes before every edge diagnostic    *)
(* (in edge order), which come before every isolated-node warning, which   *)
(* come before every circular-dependency error.                            *)
EdgeCodes == FlowOnlyCodes \ {"isolated-node", "circular-dependency", "node-position-overlap"}

\* the stage of the pipeline a diagnostic belongs to, by its code
StageOf(code) ==
    IF code \in PerNodeCodes \cup {"missing-node-id"} THEN 1
    ELSE IF code \in EdgeCodes THEN 2
    ELSE IF code = "isolated-node" THEN 3
    ELSE IF code = "circular-dependency" THEN 4
    ELSE 0

\* the place of a per-node diagnostic within the checks of its node
RankOf(code) ==
    CASE code = "missing-node-id" -> 1
      [] code = "duplicate-node-id" -> 2
      [] code \in {"missing-node-type", "invalid-node-type"} -> 3
      [] code \in {"missing-node-position", "invalid-node-position"} -> 4
      [] code \in {"missing-node-version", "invalid-version-syntax",
                   "prerelease-version"} -> 6
      [] code = "node-position-overlap" -> 7
      [] OTHER -> 5

\* the diagnostic is one of the node at position i
IssueOfNode(nodes, i, issue) ==
    IF issue.code = "missing-node-id"
    THEN /\ Falsy(nodes[i].id)
         /\ issue.message
               = "Node at index " \o NumStr(i - 1) \o " is missing required field: id"
    ELSE Truthy(nodes[i].id) /\ issue.elementId = nodes[i].id

\* the diagnostics from k on can be dealt to the nodes from i on, in node order
\* and by rising rank within a node; r is the rank reached within the node at i
RECURSIVE InNodeOrder(_, _, _, _, _)
InNodeOrder(nodes, issues, k, i, r) ==
    IF k > Len(issues) THEN TRUE
    ELSE IF i > Len(nodes) THEN FALSE
    ELSE IF IssueOfNode(nodes, i, issues[k]) /\ RankOf(issues[k].code) >= r
    THEN InNodeOrder(nodes, issues, k + 1, i, RankOf(issues[k].code))
    ELSE InNodeOrder(nodes, issues, k, i + 1, 0)

\* the diagnostic is one of the edge at position j
IssueOfEdge(edgeList, j, issue) ==
    issue.message
       \in {"Edge at index " \o NumStr(j - 1) \o " is missing required field: " \o f :
               f \in {"source", "sourceHandle", "target", "targetHandle"}}
           \cup {"Edge references non-existent source node: " \o edgeList[j].source,
                 "Edge references non-existent target node: " \o edgeList[j].target,
                 SourceHandleMessage(edgeList[j]), TargetHandleMessage(edgeList[j])}

RECURSIVE InEdgeOrder(_, _, _, _)
InEdgeOrder(edgeList, issues, k, j) ==
    IF k > Len(issues) THEN TRUE
    ELSE IF j > Len(edgeList) THEN FALSE
    ELSE IF IssueOfEdge(edgeList, j, issues[k])
    THEN InEdgeOrder(edgeList, issues, k + 1, j)
    ELSE InEdgeOrder(edgeList, issues, k, j + 1)

StageOrderClaim(d, outcome) ==
    LET InStage1(issue) == StageOf(issue.code) = 1
        InStage2(issue) == StageOf(issue.code) = 2
    IN  /\ \A k \in 1..Len(outcome.issues) : StageOf(outcome.issues[k].code) # 0
        /\ \A k \in 1..(Len(outcome.issues) - 1) :
              StageOf(outcome.issues[k].code) <= StageOf(outcome.issues[k + 1].code)
        /\ InNodeOrder(d.nodes.items, SelectSeq(outcome.issues, InStage1), 1, 1, 0)
        /\ InEdgeOrder(d.edges.items, SelectSeq(outcome.issues, InStage2), 1, 1)

C27_StageOrder ==
    (Called /\ ~NodeMode /\ WellShaped /\ ~result.threw) => StageOrderClaim(data, result)

\* a list with diagnostics of two nodes, of two edges, an isolated node and a cycle
C27_Witness ==
    /\ Called /\ ~NodeMode /\ WellShaped /\ ~result.threw
    /\ Cardinality({result.issues[k].elementId :
                       k \in {j \in 1..Len(result.issues) :
                                 StageOf(result.issues[j].code) = 1}}) >= 2
    /\ HasCode(result.issues, "missing-edge-source")
    /\ HasCode(result.issues, "invalid-edge-source-node")
    /\ HasCode(result.issues, "isolated-node")
    /\ HasCode(result.issues, "circular-dependency")
    /\ HasCode(result.issues, "node-position-overlap")
    /\ HasCode(result.issues, "prerelease-version")
    /\ HasCode(result.issues, "unknown-output")

(* C28: in flow mode, the number of node-position-overlap warnings         *)
(* attributed to a node n that has a position equals the number of nodes m *)
(* with an id different from n's and with a position such that            *)
(* |n.x - m.x| < 100 and |n.y - m.y| < 50; rectangles that only touch do   *)
(* not overlap, the relation is symmetric, and a node is never reported as *)
(* overlapping itself.                                                     *)
Abs(n) == IF n < 0 THEN 0 - n ELSE n

\* both coordinates of both positions are numbers and the distances are small
Near(p, q) ==
    /\ p.kind = "object" /\ q.kind = "object"
    /\ p.x.num /\ p.y.num /\ q.x.num /\ q.y.num
    /\ Abs(p.x.v - q.x.v) < 100
    /\ Abs(p.y.v - q.y.v) < 50

\* the pairs (n, m) of the claim among the nodes that carry the id
NearPairs(nodes, id) ==
    {p \in (1..Len(nodes)) \X (1..Len(nodes)) :
        /\ nodes[p[1]].id = id
        /\ nodes[p[1]].position.kind = "object"
        /\ nodes[p[2]].id # id
        /\ Near(nodes[p[1]].position, nodes[p[2]].position)}

OverlapCountClaim(d, outcome) ==
    LET nodes == d.nodes.items
    IN  /\ \A n \in 1..Len(nodes) :
              Truthy(nodes[n].id)
                 => /\ Cardinality(IssuesOf(outcome, "node-position-overlap", nodes[n].id))
                          = Cardinality(NearPairs(nodes, nodes[n].id))
                    /\ \A m \in 1..Len(nodes) :
                          Cardinality({k \in IssuesOf(outcome, "node-position-overlap",
                                                      nodes[n].id) :
                                          outcome.issues[k].message
                                             = "Node overlaps with node "
                                                  \o Str(nodes[m].id)})
                             = Cardinality({p \in NearPairs(nodes, nodes[n].id) :
                                               nodes[p[2]].id = nodes[m].id})
        /\ CountCode(outcome.issues, "node-position-overlap")
              = Cardinality({p \in (1..Len(nodes)) \X (1..Len(nodes)) :
                                /\ Truthy(nodes[p[1]].id)
                                /\ p \in NearPairs(nodes, nodes[p[1]].id)})

C28_OverlapCount ==
    (Called /\ ~NodeMode /\ WellShaped) => OverlapCountClaim(data, result)

\* the same for the runs that return
C28_OverlapCountWhenReturned ==
    (Called /\ ~NodeMode /\ WellShaped /\ ~result.threw)
        => OverlapCountClaim(data, result)

(* C29: for every graph whose nodes and edges are arrays, the list         *)
(* returned in node mode equals the list returned in flow mode with every  *)
(* node-position-overlap, missing-edge-*, invalid-edge-*, isolated-node    *)
(* and circular-dependency diagnostic removed, the remaining diagnostics   *)
(* in the same order; the required-input connectivity lookup uses the      *)
(* graph's edges in node mode too.                                         *)
WithoutFlowOnly(issues) ==
    LET Kept(issue) == issue.code \notin FlowOnlyCodes
    IN  SelectSeq(issues, Kept)

\* the outcome of a flow-mode run on the same graph
InFlowMode(d) == Fresh(Options(Undefined, "flow"), d)

C29_NodeModeIsFlowModeFiltered ==
    (Called /\ NodeMode /\ WellShaped /\ ~result.threw)
        => /\ ~InFlowMode(data).threw
           /\ result.issues = WithoutFlowOnly(InFlowMode(data).issues)

\* the same for the graphs on which the flow-mode run returns
C29_FilteredWhenBothReturn ==
    (Called /\ NodeMode /\ WellShaped /\ ~InFlowMode(data).threw)
        => /\ ~result.threw
           /\ result.issues = WithoutFlowOnly(InFlowMode(data).issues)

\* a node-mode run that returns a list on a graph on which the flow-mode run
\* throws
C29_FlowModeThrows ==
    /\ Called /\ NodeMode /\ WellShaped /\ ~result.threw
    /\ InFlowMode(data).threw

\* both runs return, the flow-mode list is longer, and an edge of the graph
\* keeps a required input without value from being reported in both
C29_BothReturn ==
    /\ Called /\ NodeMode /\ WellShaped /\ ~result.threw
    /\ ~InFlowMode(data).threw
    /\ Len(InFlowMode(data).issues) > Len(result.issues)
    /\ Len(result.issues) > 0
    /\ \E n \in 1..Len(data.nodes.items) :
          /\ RequiredFieldEmpty(data.nodes.items[n], "prompt")
          /\ EmptyIssues(result, data.nodes.items[n].id, "prompt") = {}

(* C30: in every list returned by lintFlow, every diagnostic with          *)
(* elementType node and a code other than missing-node-id carries an       *)
(* elementId that is the non-empty id of a node of the linted graph; in    *)
(* particular no isolated-node warning is emitted for a node that has no   *)
(* id.                                                                     *)
AttributedToNode(d, issue) ==
    /\ Truthy(issue.elementId)
    /\ WellShaped
    /\ issue.elementId \in NodeIdsOf(d)

C30_NodeIssuesCarryId ==
    (Called /\ ~result.threw)
        => \A k \in 1..Len(result.issues) :
              (result.issues[k].elementType = "node"
                  /\ result.issues[k].code # "missing-node-id")
                 => AttributedToNode(data, result.issues[k])

\* the same for the codes of the per-node checks, the isolated-node warning
\* left aside
C30_PerNodeIssuesCarryId ==
    (Called /\ ~result.threw)
        => \A k \in 1..Len(result.issues) :
              (result.issues[k].elementType = "node"
                  /\ result.issues[k].code \notin {"missing-node-id", "isolated-node"})
                 => AttributedToNode(data, result.issues[k])

\* a returned list with an isolated-node warning for a node that has no id
C30_IsolatedWithoutId ==
    /\ Called /\ ~result.threw
    /\ \E k \in 1..Len(result.issues) :
          /\ result.issues[k].code = "isolated-node"
          /\ result.issues[k].elementType = "node"
          /\ result.issues[k].elementId = Undefined
          /\ result.issues[k].message
                = "Node undefined is isolated (not connected to any other nodes)"

====
